---- MODULE Spec2Model ----
(***************************************************************************)
(* A model of the aggregation-and-scoring engine of the Rationality        *)
(* repository: the price math and the Brier score of                       *)
(* backend/common/utils.py, the order-book rationality score of            *)
(* backend/common/services/rationality_calculator.py with its historical   *)
(* score, the aggregation loop of backend/aggregator/main.py, the retrying *)
(* fetch of backend/common/services/polymarket_client.py, and the alert    *)
(* loop, the rule check and the email send of backend/alerts/main.py.      *)
(*                                                                         *)
(* Python floats are modelled as exact rationals in lowest terms, plus     *)
(* NaN: rounding and the infinities are outside the model.  Every          *)
(* comparison with NaN is false, as in IEEE 754.                           *)
(***************************************************************************)
EXTENDS Integers, Sequences, FiniteSets, TLC

VARIABLES
    bids, asks,             \* the order book handed to the price functions
    true_price, mid_price,  \* what calculate_true_price / calculate_mid_price gave
    predictions, outcomes,  \* the arguments of calculate_brier_score
    brier_score,            \* what calculate_brier_score gave
    orders,                 \* the argument of calculate_active_rationality
    metrics,                \* the RationalityMetrics it returned
    markets,                \* the ids of the rows of the markets table, as queried
    market_snapshots,       \* the market_snapshots table: market id -> its rows
    true_prices,            \* the true_prices table, in insertion order
    session,                \* the aggregation cycle's Session: open, what it holds uncommitted, the tasks that used it
    tasks,                  \* the process_market tasks gather has still to run
    results,                \* gather's results: market id -> None or the exception
    cycle_error,            \* the exception the cycle itself caught
    now,                    \* datetime.utcnow() in aggregation cycles
    aggPc,                  \* where aggregate_market_data stands
    endpoint,               \* "orders" or "trades": which fetch was called
    retries,                \* _retry_request's retries
    delay,                  \* _retry_request's delay
    attempt_log,            \* what each call of _fetch_data did, in order
    slept,                  \* the delays _retry_request has slept, in order
    fetch_result,           \* what fetch_active_orders / fetch_trades gave its caller
    fetchPc,                \* where _retry_request stands
    alert_rules,            \* the rule models the check_alert_rule tasks are made for
    alert_notifications,    \* the alert_notifications table, in insertion order
    emails,                 \* the send_alert_email tasks created so far
    rule_tasks,             \* the check_alert_rule tasks gather has still to run
    alert_log,              \* what each check_alert_rule task gave gather, in order
    alert_session,          \* the alert cycle's Session
    alert_now,              \* datetime.utcnow() in alert cycles
    alertPc,                \* where the alert cycle stands
    rule_rows,              \* the alert_rules table check_alerts queries
    alert_error,            \* the exception check_alerts itself caught
    email_retries,          \* send_alert_email's retries
    email_delay,            \* send_alert_email's delay
    email_attempts,         \* what each attempt to send did, in order
    email_slept,            \* the delays send_alert_email has slept, in order
    email_result,           \* what send_alert_email returned
    emailPc,                \* where send_alert_email stands
    trades,                 \* the argument of calculate_historical_rationality
    hist_market,            \* what the query of the market gives: no row or one
    trader_predictions,     \* the trader_predictions table
    hist_metrics,           \* the RationalityMetrics it returned
    score_markets,          \* the markets table the trader-score update queries
    score_traders,          \* the ids of the rows of the traders table
    score_predictions,      \* the trader_predictions table of the leaderboard
    trader_score_rows,      \* the trader_scores table
    score_session,          \* the trader-score cycle's Session
    score_error,            \* the exception the trader-score update caught
    score_now,              \* datetime.utcnow() in trader-score cycles
    scorePc,                \* where update_trader_scores_periodically stands
    master_session,         \* the Session poll_polymarket reads the markets with
    market_sessions,        \* market id -> the Session of its process_market_with_session task
    poll_tasks,             \* the ingestion tasks gather has not yet seen the end of
    poll_orders,            \* market id -> what fetch_active_orders gave its task
    poll_results,           \* gather's results in ingestion: market id -> None or the exception
    poll_now,               \* datetime.utcnow() in ingestion cycles
    pollPc,                 \* where poll_polymarket stands
    service_result,         \* what get_active / get_historical gave the presentation layer
    running,                \* the task that holds the event loop, 0 for none
    added                   \* the tasks that have added to the session and not yet committed

priceVars == <<bids, asks, true_price, mid_price>>
brierVars == <<predictions, outcomes, brier_score>>
rationalityVars == <<orders, metrics>>
aggVars == <<markets, market_snapshots, true_prices, session, tasks, results,
             cycle_error, now, aggPc>>
fetchVars == <<endpoint, retries, delay, attempt_log, slept, fetch_result, fetchPc>>
alertVars == <<alert_rules, alert_notifications, emails, rule_tasks, alert_log,
               alert_session, alert_now, alertPc>>
loopVars == <<rule_rows, alert_error>>
emailVars == <<email_retries, email_delay, email_attempts, email_slept,
               email_result, emailPc>>
histVars == <<trades, hist_market, trader_predictions, hist_metrics>>
scoreVars == <<score_markets, score_traders, score_predictions, trader_score_rows,
               score_session, score_error, score_now, scorePc>>
ingestVars == <<master_session, market_sessions, poll_tasks, poll_orders,
                poll_results, poll_now, pollPc>>
serviceVars == <<service_result>>
stepVars == <<running, added>>
moreVars == <<scoreVars, ingestVars, serviceVars, stepVars>>
restVars == <<loopVars, emailVars, histVars, moreVars>>
vars == <<priceVars, brierVars, rationalityVars, aggVars, fetchVars, alertVars,
          restVars>>

----------------------------------------------------------------------------
(* Floats *)

Abs(x) == IF x < 0 THEN -x ELSE x

RECURSIVE GCD(_, _)
GCD(a, b) == IF b = 0 THEN a ELSE GCD(b, a % b)

NaN == [nan |-> TRUE, n |-> 0, d |-> 1]

\* n/d in lowest terms with a positive denominator (d # 0)
Rat(n, d) ==
    LET g == GCD(Abs(n), Abs(d))
        s == IF d < 0 THEN -1 ELSE 1
    IN  [nan |-> FALSE, n |-> s * (n \div g), d |-> s * (d \div g)]

Zero == Rat(0, 1)
One == Rat(1, 1)
Two == Rat(2, 1)

isnan(x) == x.nan

FAdd(a, b) == IF a.nan \/ b.nan THEN NaN ELSE Rat(a.n * b.d + b.n * a.d, a.d * b.d)
FSub(a, b) == IF a.nan \/ b.nan THEN NaN ELSE Rat(a.n * b.d - b.n * a.d, a.d * b.d)
FMul(a, b) == IF a.nan \/ b.nan THEN NaN ELSE Rat(a.n * b.n, a.d * b.d)
\* a / b for b # 0 (every division of the modelled code is guarded)
FDiv(a, b) == IF a.nan \/ b.nan THEN NaN ELSE Rat(a.n * b.d, a.d * b.n)

FLt(a, b) == ~a.nan /\ ~b.nan /\ a.n * b.d < b.n * a.d
FLe(a, b) == ~a.nan /\ ~b.nan /\ a.n * b.d <= b.n * a.d
FGt(a, b) == FLt(b, a)
FGe(a, b) == FLe(b, a)
FEq(a, b) == ~a.nan /\ ~b.nan /\ a.n * b.d = b.n * a.d

\* Python's max(a, b) and min(a, b): the first argument unless the second beats it
PyMax2(a, b) == IF FGt(b, a) THEN b ELSE a
PyMin2(a, b) == IF FLt(b, a) THEN b ELSE a

\* Python's max(iterable) / min(iterable) over a non-empty sequence
RECURSIVE PyMaxFrom(_, _, _)
PyMaxFrom(best, s, i) ==
    IF i > Len(s) THEN best ELSE PyMaxFrom(PyMax2(best, s[i]), s, i + 1)
PyMax(s) == PyMaxFrom(s[1], s, 2)

RECURSIVE PyMinFrom(_, _, _)
PyMinFrom(best, s, i) ==
    IF i > Len(s) THEN best ELSE PyMinFrom(PyMin2(best, s[i]), s, i + 1)
PyMin(s) == PyMinFrom(s[1], s, 2)

\* max(0.0, min(1.0, x))
Clamp01(x) == PyMax2(Zero, PyMin2(One, x))

\* What a call gave: nothing yet, a returned value, or a raised exception
NoCall == [st |-> "none", v |-> NaN]
Ret(x) == [st |-> "return", v |-> x]
Raised == [st |-> "raise", v |-> NaN]

----------------------------------------------------------------------------
(* Order-book levels: Dict[str, Any] with the keys "price" and "size".     *)
(* A field holds a number (int or float, NaN included), a value float()    *)
(* converts but isinstance(.., (int, float)) rejects (a numeric string), a *)
(* value float() refuses with ValueError or TypeError (a word, None, a     *)
(* list), or the key is absent.                                            *)

Num(x) == [k |-> "num", x |-> x]
Str(x) == [k |-> "str", x |-> x]
Bad == [k |-> "bad", x |-> NaN]
Missing == [k |-> "missing", x |-> NaN]

Level(p, s) == [price |-> p, size |-> s]

\* dict.get(key, default)
DictGet(field, default) == IF field.k = "missing" THEN default ELSE field

\* isinstance(b.get("price"), (int, float))
IsNumber(field) == field.k = "num"

\* float(x) raises ValueError or TypeError
FloatRaises(field) == field.k = "bad"

\* [b.get("price", 0.0) for b in levels if isinstance(b.get("price"), (int, float))]
RECURSIVE NumericPrices(_)
NumericPrices(levels) ==
    IF levels = <<>> THEN <<>>
    ELSE LET rest == NumericPrices(Tail(levels))
             p == Head(levels).price
         IN  IF IsNumber(p) THEN <<DictGet(p, Num(Zero)).x>> \o rest ELSE rest

\* Mutant: the best_bid_price == 0.0 test left out
calculate_mid_price_NoZeroTest(b, a) ==
    IF b = <<>> \/ a = <<>> THEN NaN
    ELSE LET bp == NumericPrices(b)
             ap == NumericPrices(a)
         IN  IF bp = <<>> \/ ap = <<>> THEN NaN
             ELSE FDiv(FAdd(PyMax(bp), PyMin(ap)), Two)

calculate_mid_price(b, a) ==
    IF b = <<>> \/ a = <<>> THEN NaN
    ELSE LET bp == NumericPrices(b)
             ap == NumericPrices(a)
         IN  \* max() or min() of an empty sequence: ValueError, caught
             IF bp = <<>> \/ ap = <<>> THEN NaN
             ELSE LET best_bid_price == PyMax(bp)
                      best_ask_price == PyMin(ap)
                  IN  \* best_ask_price == float("inf") needs an infinite
                      \* ask price, which the model's floats do not hold
                      IF FEq(best_bid_price, Zero) THEN NaN
                      ELSE FDiv(FAdd(best_bid_price, best_ask_price), Two)

\* Mutant: only ints and floats are taken, as calculate_mid_price does
AddLevelNumbersOnly(acc, level) ==
    LET p == DictGet(level.price, Num(Zero))
        s == DictGet(level.size, Num(Zero))
    IN  IF ~IsNumber(p) \/ ~IsNumber(s) THEN acc
        ELSE IF FGt(p.x, Zero) /\ FGt(s.x, Zero)
             THEN [weighted_sum |-> FAdd(acc.weighted_sum, FMul(p.x, s.x)),
                   total_volume |-> FAdd(acc.total_volume, s.x)]
             ELSE acc

\* Mutant: the price > 0 test left out
AddLevelAnyPrice(acc, level) ==
    LET p == DictGet(level.price, Num(Zero))
        s == DictGet(level.size, Num(Zero))
    IN  IF FloatRaises(p) \/ FloatRaises(s) THEN acc
        ELSE IF FGt(s.x, Zero)
             THEN [weighted_sum |-> FAdd(acc.weighted_sum, FMul(p.x, s.x)),
                   total_volume |-> FAdd(acc.total_volume, s.x)]
             ELSE acc

\* One pass of the loop body of calculate_true_price over a level
AddLevel(acc, level) ==
    LET p == DictGet(level.price, Num(Zero))
        s == DictGet(level.size, Num(Zero))
    IN  IF FloatRaises(p) \/ FloatRaises(s) THEN acc
        ELSE IF FGt(p.x, Zero) /\ FGt(s.x, Zero)
             THEN [weighted_sum |-> FAdd(acc.weighted_sum, FMul(p.x, s.x)),
                   total_volume |-> FAdd(acc.total_volume, s.x)]
             ELSE acc

RECURSIVE AddLevels(_, _)
AddLevels(acc, levels) ==
    IF levels = <<>> THEN acc
    ELSE AddLevels(AddLevel(acc, Head(levels)), Tail(levels))

\* Mutant: no fallback, NaN whenever the volume is zero
ZeroVolumeFallbackNaN(b, a) == NaN

\* The value calculate_true_price returns when total_volume == 0
ZeroVolumeFallback(b, a) == calculate_mid_price(b, a)

calculate_true_price(b, a) ==
    LET start == [weighted_sum |-> Zero, total_volume |-> Zero]
        acc == AddLevels(AddLevels(start, b), a)
    IN  IF FEq(acc.total_volume, Zero) THEN ZeroVolumeFallback(b, a)
        ELSE Clamp01(FDiv(acc.weighted_sum, acc.total_volume))

----------------------------------------------------------------------------
(* calculate_brier_score *)

\* Mutant: only the lower bound of a prediction is tested
PredictionInDomainNoUpper(prediction) == FLe(Zero, prediction)

\* 0.0 <= prediction <= 1.0
PredictionInDomain(prediction) == FLe(Zero, prediction) /\ FLe(prediction, One)

\* outcome in [0, 1]
OutcomeInDomain(outcome) == outcome \in {0, 1}

\* Mutant: the absolute error, not its square
SquaredErrorAbs(prediction, outcome) ==
    LET e == FSub(prediction, Rat(outcome, 1))
    IN  IF FLt(e, Zero) THEN FSub(Zero, e) ELSE e

\* (prediction - outcome) ** 2
SquaredError(prediction, outcome) ==
    LET e == FSub(prediction, Rat(outcome, 1)) IN FMul(e, e)

\* The for loop of calculate_brier_score from index i on (1-based)
RECURSIVE BrierLoop(_, _, _, _)
BrierLoop(p, o, i, total_squared_error) ==
    IF i > Len(p) THEN Ret(FDiv(total_squared_error, Rat(Len(p), 1)))
    ELSE IF ~PredictionInDomain(p[i]) THEN Raised
    ELSE IF ~OutcomeInDomain(o[i]) THEN Raised
    ELSE BrierLoop(p, o, i + 1, FAdd(total_squared_error, SquaredError(p[i], o[i])))

calculate_brier_score(p, o) ==
    IF Len(p) # Len(o) THEN Raised
    ELSE IF p = <<>> THEN Ret(NaN)
    ELSE BrierLoop(p, o, 1, Zero)

----------------------------------------------------------------------------
(* SimpleRationalityCalculator.calculate_active_rationality.  An Order has *)
(* a makerAddress, a side, a float price and a float size; sizes are not   *)
(* negative (the data model's size >= 0).                                  *)

Order(maker, side, price, size) ==
    [makerAddress |-> maker, side |-> side, price |-> price, size |-> size]

\* [o for o in orders if o.side == side]
OrdersOfSide(os, side) == SelectSeq(os, LAMBDA o : o.side = side)

\* trader_orders[trader]
OrdersOfTrader(os, trader) == SelectSeq(os, LAMBDA o : o.makerAddress = trader)

\* The keys of trader_orders
Makers(os) == {os[i].makerAddress : i \in 1..Len(os)}

RECURSIVE PricesOf(_)
PricesOf(os) ==
    IF os = <<>> THEN <<>> ELSE <<Head(os).price>> \o PricesOf(Tail(os))

\* sum(order.size for order in os)
RECURSIVE SumSizes(_)
SumSizes(os) ==
    IF os = <<>> THEN Zero ELSE FAdd(Head(os).size, SumSizes(Tail(os)))

\* Mutant: the midpoint is used as it comes, without lines 56-59
ConsensusPriceUnvalidated(os) ==
    LET buy_orders == OrdersOfSide(os, "BUY")
        sell_orders == OrdersOfSide(os, "SELL")
    IN  IF buy_orders = <<>> \/ sell_orders = <<>> THEN Rat(1, 2)
        ELSE FDiv(FAdd(PyMax(PricesOf(buy_orders)), PyMin(PricesOf(sell_orders))), Two)

\* Lines 45-59: the consensus price
ConsensusPrice(os) ==
    LET buy_orders == OrdersOfSide(os, "BUY")
        sell_orders == OrdersOfSide(os, "SELL")
        consensus_price ==
            IF buy_orders = <<>> \/ sell_orders = <<>> THEN Rat(1, 2)
            ELSE LET best_bid == PyMax(PricesOf(buy_orders))
                     best_ask == PyMin(PricesOf(sell_orders))
                 IN  FDiv(FAdd(best_bid, best_ask), Two)
    IN  IF isnan(consensus_price) \/ FLt(consensus_price, Zero)
            \/ FGt(consensus_price, One)
        THEN Rat(1, 2)
        ELSE consensus_price

\* math.isnan(price) or price < 0 or price > 1
InvalidPrice(price) == isnan(price) \/ FLt(price, Zero) \/ FGt(price, One)

\* Mutant: the size itself, not its share of the total
OrderWeightUnnormalised(order, total_size) == order.size

\* order.size / total_size
OrderWeight(order, total_size) == FDiv(order.size, total_size)

\* The inner loop of lines 73-84 over a trader's orders
RECURSIVE WeightedDeviation(_, _, _)
WeightedDeviation(os, total_size, consensus_price) ==
    IF os = <<>> THEN Zero
    ELSE LET order == Head(os)
             rest == WeightedDeviation(Tail(os), total_size, consensus_price)
             d == FSub(order.price, consensus_price)
         IN  IF InvalidPrice(order.price) THEN rest
             ELSE FAdd(FMul(FMul(d, d), OrderWeight(order, total_size)), rest)

\* Lines 63-94: the score of one trader
TraderScore(trader_order_list, consensus_price) ==
    LET total_size == SumSizes(trader_order_list) IN
    IF FEq(total_size, Zero) THEN Zero
    ELSE LET weighted_score ==
                 WeightedDeviation(trader_order_list, total_size, consensus_price)
             score == FSub(One, weighted_score)
         IN  IF isnan(score) THEN Zero ELSE Clamp01(score)

\* sum(trader_scores[o.makerAddress] * (o.size / total_size) for o in os)
RECURSIVE WeightedScores(_, _, _)
WeightedScores(os, trader_scores, total_size) ==
    IF os = <<>> THEN Zero
    ELSE FAdd(FMul(trader_scores[Head(os).makerAddress],
                   OrderWeight(Head(os), total_size)),
              WeightedScores(Tail(os), trader_scores, total_size))

\* Lines 96-112: the overall score
OverallScore(os, trader_scores) ==
    LET total_size == SumSizes(os) IN
    IF FEq(total_size, Zero) THEN Zero
    ELSE LET weighted_sum == WeightedScores(os, trader_scores, total_size)
         IN  IF isnan(weighted_sum) THEN Zero ELSE Clamp01(weighted_sum)

calculate_active_rationality(os) ==
    IF os = <<>> THEN [overallScore |-> Zero, perTraderScore |-> <<>>]
    ELSE LET consensus_price == ConsensusPrice(os)
             trader_scores ==
                 [t \in Makers(os) |->
                     TraderScore(OrdersOfTrader(os, t), consensus_price)]
         IN  [overallScore |-> OverallScore(os, trader_scores),
              perTraderScore |-> trader_scores]

----------------------------------------------------------------------------
(* backend/aggregator/main.py.  A row of market_snapshots holds raw_data,  *)
(* which is a text json.loads refuses, a JSON text that is no object, or   *)
(* the JSON object of a book, and the mid_price ingestion stored with it   *)
(* (a float: the column is not nullable).  A statement of the session      *)
(* either succeeds or raises SQLAlchemyError; what the database does with  *)
(* later statements of a transaction after a failed one is not modelled.   *)

Corrupt == [kind |-> "corrupt", bids |-> <<>>, asks |-> <<>>]
NotObject == [kind |-> "notobject", bids |-> <<>>, asks |-> <<>>]
BookData(b, a) == [kind |-> "book", bids |-> b, asks |-> a]

SnapshotRow(ts, data, mid) == [timestamp |-> ts, raw_data |-> data, mid_price |-> mid]

TruePriceRow(market_id, ts, value, mid) ==
    [market_id |-> market_id, timestamp |-> ts, value |-> value, mid_price |-> mid]

\* Mutant: the oldest row, order_by(asc(timestamp))
LatestSnapshotAscending(rows) ==
    CHOOSE r \in rows : \A q \in rows : r.timestamp <= q.timestamp

\* order_by(desc(MarketSnapshot.timestamp)).first() over a market's rows
LatestSnapshot(rows) ==
    CHOOSE r \in rows : \A q \in rows : r.timestamp >= q.timestamp

\* Mutant: the row is added and committed twice
store_true_price_twice(row, fault) ==
    IF fault = "commit"
    THEN [result |-> "SQLAlchemyError", committed |-> <<>>]
    ELSE [result |-> "None", committed |-> <<row, row>>]

\* store_true_price_in_db: add and commit; a failed commit is rolled back
\* and re-raised
store_true_price_in_db(row, fault) ==
    IF fault = "commit"
    THEN [result |-> "SQLAlchemyError", committed |-> <<>>]
    ELSE [result |-> "None", committed |-> <<row>>]

\* Mutant: a NaN true price is stored like any other
SkipStorageNever(true_price_value, mid) == FALSE

\* Lines 140-146: the two tests that skip the storage
SkipStorage(true_price_value, mid) == isnan(true_price_value) \/ isnan(mid)

\* process_market for one market: what the task gives gather and what it
\* commits.  fault is what the database does to this task: nothing, a failed
\* snapshot query, or a failed commit.
process_market(market_id, rows, fault, ts) ==
    IF fault = "read" THEN [result |-> "SQLAlchemyError", committed |-> <<>>]
    ELSE IF rows = {} THEN [result |-> "None", committed |-> <<>>]
    ELSE LET latest_snapshot == LatestSnapshot(rows)
             snapshot_data == latest_snapshot.raw_data
         IN  IF snapshot_data.kind = "corrupt"
             THEN [result |-> "None", committed |-> <<>>]
             ELSE IF snapshot_data.kind = "notobject"
             THEN [result |-> "AttributeError", committed |-> <<>>]
             ELSE LET true_price_value ==
                          calculate_true_price(snapshot_data.bids, snapshot_data.asks)
                  IN  IF SkipStorage(true_price_value, latest_snapshot.mid_price)
                      THEN [result |-> "None", committed |-> <<>>]
                      ELSE store_true_price_in_db(
                               TruePriceRow(market_id, ts, true_price_value,
                                            latest_snapshot.mid_price),
                               fault)

(* fetch_and_store_market_data and store_snapshot_in_db of                 *)
(* backend/ingestion/main.py                                               *)

\* Lines 148-153: [{"price": o.price, "size": o.size} for o in orders if
\* o.side == side]
LevelsOfSide(os, side) ==
    LET picked == OrdersOfSide(os, side)
    IN  [i \in DOMAIN picked |-> Level(Num(picked[i].price), Num(picked[i].size))]

\* Lines 156-167 and 188-196: the row made of the orders; a NaN mid price
\* is logged and stored like any other
SnapshotOfOrders(os, ts) ==
    LET b == LevelsOfSide(os, "BUY")
        a == LevelsOfSide(os, "SELL")
    IN  SnapshotRow(ts, BookData(b, a), calculate_mid_price(b, a))

\* Mutant: a snapshot with a NaN mid price is not stored
store_snapshot_unless_nan(row, fault) ==
    IF fault = "commit"
    THEN [result |-> "SQLAlchemyError", committed |-> {}]
    ELSE IF isnan(row.mid_price) THEN [result |-> "None", committed |-> {}]
    ELSE [result |-> "None", committed |-> {row}]

\* store_snapshot_in_db: add and commit; a failed commit is rolled back and
\* raised again
store_snapshot_in_db(row, fault) ==
    IF fault = "commit"
    THEN [result |-> "SQLAlchemyError", committed |-> {}]
    ELSE [result |-> "None", committed |-> {row}]

\* fetch_and_store_market_data once the fetch has given its orders
fetch_and_store_market_data(os, ts, fault) ==
    store_snapshot_in_db(SnapshotOfOrders(os, ts), fault)

\* Mutant: the commit is awaited on a driver that suspends, so that other
\* tasks run between a task's add and its commit
SuspendsAfterAdd(function, place) == place = "add"

\* Whether a task of gather gives up the event loop at a place of
\* process_market / store_true_price_in_db or of check_alert_rule: the
\* functions are declared async but await nothing that suspends (the
\* session's query, add, commit and rollback are synchronous calls, and
\* `await store_true_price_in_db(...)` runs the coroutine in place), so a
\* task runs from its start to its return
Suspends(function, place) == FALSE

\* db.commit(): everything the session holds is written and the session is
\* left empty; db.rollback(): everything it holds is dropped
Pending(s, row) == [s EXCEPT !.new = Append(@, row)]
Emptied(s) == [s EXCEPT !.new = <<>>]

\* Mutant: gather without return_exceptions, the first exception ends it
GatherRestFailFast(ts, result) == IF result = "None" THEN Tail(ts) ELSE <<>>

\* Mutant: a task that raised is put back at the end of the tasks
GatherRestRequeue(ts, result) ==
    IF result = "None" THEN Tail(ts) ELSE Append(Tail(ts), Head(ts))

\* asyncio.gather(*tasks, return_exceptions=True): the tasks still to run
\* after one has given its result
GatherRest(ts, result) == Tail(ts)

----------------------------------------------------------------------------
(* backend/common/services/polymarket_client.py.  A call of _fetch_data   *)
(* gives the decoded JSON of the response, or raises: httpx.RequestError   *)
(* (ConnectError, ReadTimeout), httpx.HTTPStatusError from                 *)
(* raise_for_status, or the JSONDecodeError of response.json().            *)

max_retries == 3
initial_delay == 1
backoff_factor == 2

Got(data) == [kind |-> "data", v |-> data]
Threw(e) == [kind |-> "error", v |-> e]

RequestErrors == {"ConnectError", "ReadTimeout"}
OtherErrors == {"HTTPStatusError", "JSONDecodeError"}

\* Mutant: every exception is retried
IsRequestErrorAny(e) == TRUE

\* except httpx.RequestError
IsRequestError(e) == e \in RequestErrors

\* Mutant: one more attempt than max_retries
RetriesExhaustedLate(r) == r > max_retries

\* if retries >= max_retries
RetriesExhausted(r) == r >= max_retries

\* Mutant: the delay stays what it was
NextDelayConstant(d) == d

\* delay *= backoff_factor
NextDelay(d) == d * backoff_factor

\* [Order.parse_obj(order) for order in orders_data]: an item that is no
\* order raises ValidationError
ParseRaises(data) == \E i \in 1..Len(data) : data[i] = "malformed"

NoFetch == [st |-> "none", v |-> <<>>]

\* Mutant: what was raised is logged and raised again
FetchReturnReraise(outcome) ==
    IF outcome.kind = "data" /\ ~ParseRaises(outcome.v)
    THEN [st |-> "return", v |-> outcome.v]
    ELSE [st |-> "raise", v |-> <<>>]

\* Lines 54-63 and 67-76 around _retry_request: the parsed list is returned,
\* and whatever was raised is logged and an empty list returned
FetchReturn(outcome) ==
    IF outcome.kind = "data" /\ ~ParseRaises(outcome.v)
    THEN [st |-> "return", v |-> outcome.v]
    ELSE [st |-> "return", v |-> <<>>]

----------------------------------------------------------------------------
(* backend/alerts/main.py: check_alert_rule and the email task it creates. *)
(* The rows of true_prices are what the TruePrice table holds; no column    *)
(* of it is nullable, so value and mid_price are floats.                    *)

FAbs(x) == IF x.nan THEN NaN ELSE Rat(Abs(x.n), x.d)

AlertRule(id, market_id, threshold, condition) ==
    [id |-> id, market_id |-> market_id, threshold |-> threshold,
     condition |-> condition]

AlertNotification(rule, true_price_value, mid, difference, ts) ==
    [alert_rule_id |-> rule.id, market_id |-> rule.market_id,
     true_price |-> true_price_value, mid_price |-> mid,
     difference |-> difference, sent_at |-> ts]

\* asyncio.create_task(send_alert_email(rule, notification_model))
EmailTask(rule, ts) == [alert_rule_id |-> rule.id, timestamp |-> ts, status |-> "scheduled"]

\* The rows of a market in a true_prices table
TruePricesOf(table, market_id) ==
    {table[i] : i \in {j \in DOMAIN table : table[j].market_id = market_id}}

\* order_by(desc(TruePrice.timestamp)).first() over a market's rows
LatestTruePrice(rows) ==
    CHOOSE r \in rows : \A q \in rows : r.timestamp >= q.timestamp

\* abs(true_price - mid_price) / mid_price
Difference(true_price_value, mid) == FDiv(FAbs(FSub(true_price_value, mid)), mid)

\* Mutant: the comparisons are not strict
ThresholdExceededNotStrict(rule, difference) ==
    \/ rule.condition = "above" /\ FGe(difference, rule.threshold)
    \/ rule.condition = "below" /\ FLe(difference, rule.threshold)

\* Lines 110-114
ThresholdExceeded(rule, difference) ==
    \/ rule.condition = "above" /\ FGt(difference, rule.threshold)
    \/ rule.condition = "below" /\ FLt(difference, rule.threshold)

\* Mutant: the row is added but the commit is left out
StoreNotificationUncommitted(row, fault) ==
    [result |-> "None", committed |-> <<>>]

\* Mutant: the row is committed twice
StoreNotificationTwice(row, fault) ==
    IF fault = "commit"
    THEN [result |-> "SQLAlchemyError", committed |-> <<>>]
    ELSE [result |-> "None", committed |-> <<row, row>>]

\* Lines 141-154: add and commit; a failed commit is rolled back and raised
StoreNotification(row, fault) ==
    IF fault = "commit"
    THEN [result |-> "SQLAlchemyError", committed |-> <<>>]
    ELSE [result |-> "None", committed |-> <<row>>]

\* check_alert_rule for one rule: what the task gives gather, the rows it
\* commits and the email tasks it creates.  fault is what the database does
\* to this task: nothing, a failed query, or a failed commit.
check_alert_rule(rule, table, fault, ts) ==
    LET rows == TruePricesOf(table, rule.market_id)
        nothing == [result |-> "None", committed |-> <<>>, created |-> <<>>]
    IN  IF fault = "read"
        THEN [result |-> "SQLAlchemyError", committed |-> <<>>, created |-> <<>>]
        ELSE IF rows = {} THEN nothing
        ELSE LET latest_true_price == LatestTruePrice(rows)
                 true_price_value == latest_true_price.value
                 mid == latest_true_price.mid_price
             IN  IF FEq(mid, Zero) THEN nothing
                 ELSE LET difference == Difference(true_price_value, mid) IN
                      IF ~ThresholdExceeded(rule, difference) THEN nothing
                      ELSE LET stored ==
                                   StoreNotification(
                                       AlertNotification(rule, true_price_value, mid,
                                                         difference, ts),
                                       fault)
                           IN  [result |-> stored.result,
                                committed |-> stored.committed,
                                created |-> <<EmailTask(rule, ts)>>]

\* send_alert_email returns True when the mail is sent and False on every
\* other way out; it raises nothing
send_alert_email(smtp) == IF smtp = "sent" THEN "True" ELSE "False"

----------------------------------------------------------------------------
(* backend/alerts/main.py: the check_alerts loop around the tasks *)

\* A row of the alert_rules table (common/db.py)
RuleRow(id, market_id, threshold, condition, is_active) ==
    [id |-> id, market_id |-> market_id, threshold |-> threshold,
     condition |-> condition, is_active |-> is_active]

\* Mutant: the query without its filter
ActiveRulesAll(rows) == rows

\* db.query(AlertRule).filter(AlertRule.is_active == True).all()
ActiveRules(rows) == SelectSeq(rows, LAMBDA r : r.is_active)

\* The Config of the AlertRule model of common/models.py sets schema_extra
\* and nothing else, so orm_mode has pydantic's default
orm_mode == FALSE

\* AlertRuleModel.from_orm(rule_orm): pydantic raises ConfigError for a
\* model whose Config has no orm_mode
from_orm(rule_orm) ==
    IF orm_mode
    THEN [st |-> "return",
          v |-> AlertRule(rule_orm.id, rule_orm.market_id, rule_orm.threshold,
                          rule_orm.condition)]
    ELSE [st |-> "raise", v |-> "ConfigError"]

\* Line 72: the list of tasks is built from every active rule before gather
\* is called, so an exception of one from_orm leaves the list unbuilt
RuleModels(active) ==
    IF \E i \in DOMAIN active : from_orm(active[i]).st = "raise"
    THEN [st |-> "raise",
          v |-> from_orm(active[CHOOSE i \in DOMAIN active :
                                   /\ from_orm(active[i]).st = "raise"
                                   /\ \A j \in 1..(i - 1) :
                                         from_orm(active[j]).st # "raise"]).v]
    ELSE [st |-> "return", v |-> [i \in DOMAIN active |-> from_orm(active[i]).v]]

\* Mutant: a cycle that caught an exception is the last one
AfterCycleStopOnError(error) == IF error = "None" THEN "sleep" ELSE "done"

\* The body of `while True` is a try with except clauses for SQLAlchemyError
\* and Exception and a finally, followed by the sleep: whatever the cycle
\* caught, the loop goes on to sleep (aggregator/main.py lines 101-110,
\* alerts/main.py lines 78-85)
AfterCycle(error) == "sleep"

----------------------------------------------------------------------------

(* backend/alerts/main.py: send_alert_email attempt by attempt *)

\* The defaults of send_alert_email's parameters, with which line 129 calls it
email_max_retries == 3
email_initial_delay == 1

\* What an attempt (lines 172-195) may raise.  smtplib raises SMTPException
\* and its subclasses for what the server says or does: SMTPServerDisconnected
\* when the connection is lost, SMTPAuthenticationError, SMTPRecipientsRefused
\* and SMTPDataError for replies of the protocol.  A connection that cannot
\* be made at all (ConnectionRefusedError, TimeoutError) is an OSError.
SMTPExceptions ==
    {"SMTPServerDisconnected", "SMTPAuthenticationError", "SMTPRecipientsRefused",
     "SMTPDataError"}
OSErrors == {"ConnectionRefusedError", "TimeoutError"}

\* The except clause that takes the exception: lines 198, 208 and 218 in
\* their order
EmailHandler(e) ==
    IF e = "SMTPServerDisconnected" THEN "SMTPServerDisconnected"
    ELSE IF e \in SMTPExceptions THEN "SMTPException"
    ELSE "Exception"

\* Lines 199-206 and 209-216 retry; lines 219-221 return False
EmailRetried(e) == EmailHandler(e) \in {"SMTPServerDisconnected", "SMTPException"}

\* Mutant: the test is made one retry too late
EmailExhaustedLate(r) == r > email_max_retries + 1

\* if retries > max_retries: return False
EmailExhausted(r) == r > email_max_retries

\* delay *= 2
EmailNextDelay(d) == d * 2

----------------------------------------------------------------------------

(* SimpleRationalityCalculator.calculate_historical_rationality and        *)
(* _get_trader_market_data.  A Trade has a makerAddress, the one field the *)
(* function reads.  The markets table is queried through the Market class  *)
(* of common/db.py, the trader_predictions table by a statement.           *)

\* A row of markets as the Market class of common/db.py maps it: the class
\* has the columns id, name, description, created_at and updated_at
MarketRow(id) ==
    [id |-> id, name |-> "market", description |-> "None",
     created_at |-> 0, updated_at |-> 0]

\* hasattr(object, name)
hasattr(object, name) == name \in DOMAIN object

PredictionRow(trader_id, prediction_value) ==
    [trader_id |-> trader_id, prediction_value |-> prediction_value]

\* WHERE trader_id = :trader_id AND market_id = :market_id ORDER BY created_at
PredictionsOfTrader(table, trader_id) ==
    SelectSeq(table, LAMBDA row : row.trader_id = trader_id)

\* Line 162: not math.isnan(prediction_value) and 0 <= prediction_value <= 1
ValidPrediction(prediction_value) ==
    ~isnan(prediction_value) /\ FLe(Zero, prediction_value) /\ FLe(prediction_value, One)

NoData == [predictions |-> <<>>, outcomes |-> <<>>]

\* _get_trader_market_data: market is what .first() gives, <<>> for None;
\* fault says that a query of this call raises
get_trader_market_data(market, table, trader_id, fault) ==
    IF fault THEN NoData
    ELSE IF market = <<>> THEN NoData
    ELSE IF ~hasattr(market[1], "outcome") THEN NoData
    ELSE IF market[1].outcome = "None" THEN NoData
    ELSE LET outcome == market[1].outcome
             rows == PredictionsOfTrader(table, trader_id)
             valid == SelectSeq(rows, LAMBDA row : ValidPrediction(row.prediction_value))
         IN  IF valid = <<>> THEN NoData
             ELSE [predictions |-> [i \in DOMAIN valid |-> valid[i].prediction_value],
                   outcomes |-> [i \in DOMAIN valid |-> outcome]]

\* Lines 203-231, the body of the loop for one trader: the entry made in
\* trader_scores and what is appended to valid_scores
HistoricalEntry(data) ==
    IF data.predictions = <<>> \/ Len(data.predictions) # Len(data.outcomes)
    THEN [entry |-> <<Zero>>, valid |-> <<>>]
    ELSE LET score == calculate_brier_score(data.predictions, data.outcomes)
         IN  IF score.st = "raise" THEN [entry |-> <<Zero>>, valid |-> <<>>]
             ELSE IF isnan(score.v) THEN [entry |-> <<Zero>>, valid |-> <<>>]
             ELSE [entry |-> <<Clamp01(score.v)>>,
                   valid |-> <<Clamp01(score.v)>>]

\* sum(valid_scores) over the traders of T
RECURSIVE SumValid(_, _)
SumValid(T, entries) ==
    IF T = {} THEN Zero
    ELSE LET t == CHOOSE x \in T : TRUE
         IN  FAdd(entries[t].valid[1], SumValid(T \ {t}, entries))

\* calculate_historical_rationality: failing is the set of traders for
\* whom a query of _get_trader_market_data raises
calculate_historical_rationality(trade_list, market, table, failing) ==
    IF trade_list = <<>>
    THEN [overallScore |-> Zero, perTraderScore |-> <<>>]
    ELSE LET traders == {trade_list[i].makerAddress : i \in DOMAIN trade_list}
             entries == [t \in traders |->
                            HistoricalEntry(
                                get_trader_market_data(market, table, t, t \in failing))]
             scored == {t \in traders : entries[t].entry # <<>>}
             valid == {t \in traders : entries[t].valid # <<>>}
         IN  [overallScore |->
                  IF valid # {}
                  THEN FDiv(SumValid(valid, entries), Rat(Cardinality(valid), 1))
                  ELSE Zero,
              perTraderScore |-> [t \in scored |-> entries[t].entry[1]]]

----------------------------------------------------------------------------

(* calculate_and_store_real_trader_scores of backend/leaderboard/main.py.  *)
(* The markets table is queried through the Market class of common/db.py,  *)
(* the trader_predictions table by a statement, the trader_scores table    *)
(* through the TraderScore class.                                          *)

\* Market.<name> at line 94: an attribute of the class Market, which has
\* the columns of MarketRow and no other
MarketClassHas(name) == hasattr(MarketRow(0), name)

\* NULL in a column
Null == -1

TraderScoreRow(trader_id, market_id, score, timestamp) ==
    [trader_id |-> trader_id, market_id |-> market_id, score |-> score,
     timestamp |-> timestamp]

ScorePredictionRow(trader_id, market_id, prediction_value) ==
    [trader_id |-> trader_id, market_id |-> market_id,
     prediction_value |-> prediction_value]

\* _get_trader_predictions_for_market: the values of the trader's rows for
\* the market, [] when the statement raises
get_trader_predictions_for_market(table, market_id, trader_id, fault) ==
    IF fault THEN <<>>
    ELSE LET rows == SelectSeq(table, LAMBDA row : row.trader_id = trader_id
                                                  /\ row.market_id = market_id)
         IN  [i \in DOMAIN rows |-> rows[i].prediction_value]

\* Mutant: a row is added whether or not the pair has one
StoreScoreAlwaysAdds(table, trader_id, market_id, score, ts) ==
    Append(table, TraderScoreRow(trader_id, market_id, score, ts))

\* Lines 129-147: the first row of the pair is given the score and the
\* time, and a row is added when the pair has none
StoreScore(table, trader_id, market_id, score, ts) ==
    LET existing == {i \in DOMAIN table : table[i].trader_id = trader_id
                                          /\ table[i].market_id = market_id}
    IN  IF existing # {}
        THEN LET first == CHOOSE i \in existing : \A j \in existing : i <= j
             IN  [table EXCEPT ![first].score = score, ![first].timestamp = ts]
        ELSE Append(table, TraderScoreRow(trader_id, market_id, score, ts))

\* Lines 119-152, the body of the loop for one trader: a trader without
\* predictions is passed over, a ValueError of calculate_brier_score logged
ScoreTrader(table, market_id, market_outcome, trader_id, prediction_table, ts, fault) ==
    LET trader_values ==
            get_trader_predictions_for_market(prediction_table, market_id,
                                              trader_id, fault)
    IN  IF trader_values = <<>> THEN table
        ELSE LET score == calculate_brier_score(
                              trader_values,
                              [i \in DOMAIN trader_values |-> market_outcome])
             IN  IF score.st = "raise" THEN table
                 ELSE StoreScore(table, trader_id, market_id, score.v, ts)

\* Lines 118-152: for trader in all_traders
RECURSIVE ScoreTraders(_, _, _, _, _, _, _)
ScoreTraders(table, market_id, market_outcome, traders, prediction_table, ts, failing) ==
    IF traders = <<>> THEN table
    ELSE ScoreTraders(ScoreTrader(table, market_id, market_outcome, Head(traders),
                                  prediction_table, ts, Head(traders) \in failing),
                      market_id, market_outcome, Tail(traders), prediction_table,
                      ts, failing)

\* Lines 106-152: for market in resolved_markets; mock[id] is what
\* random.choice([0, 1]) gives for the market id when it has no outcome
RECURSIVE ScoreMarkets(_, _, _, _, _, _, _)
ScoreMarkets(table, rows, traders, prediction_table, ts, failing, mock) ==
    IF rows = <<>> THEN table
    ELSE LET market == Head(rows)
             rest(t) == ScoreMarkets(t, Tail(rows), traders, prediction_table,
                                     ts, failing, mock)
         IN  IF ~hasattr(market, "outcome")
             THEN rest(ScoreTraders(table, market.id, mock[market.id], traders,
                                    prediction_table, ts, failing))
             ELSE IF market.outcome \notin {0, 1} THEN rest(table)
             ELSE rest(ScoreTraders(table, market.id, market.outcome, traders,
                                    prediction_table, ts, failing))

\* calculate_and_store_real_trader_scores: the table after the call and the
\* exception the function caught.  fault says which of the query of the
\* markets and the commit raises, failing is the set of traders for whom the
\* statement of _get_trader_predictions_for_market raises
calculate_and_store_real_trader_scores(rows, traders, prediction_table, table, ts, fault, failing, mock) ==
    IF ~(MarketClassHas("is_resolved") /\ MarketClassHas("outcome"))
    THEN [table |-> table, error |-> "AttributeError"]
    ELSE IF fault = "query" THEN [table |-> table, error |-> "SQLAlchemyError"]
    ELSE LET resolved_markets ==
                 SelectSeq(rows, LAMBDA row : row.is_resolved /\ row.outcome # Null)
         IN  IF resolved_markets = <<>> \/ traders = <<>>
             THEN [table |-> table, error |-> "None"]
             ELSE IF fault = "commit"
             THEN [table |-> table, error |-> "SQLAlchemyError"]
             ELSE [table |-> ScoreMarkets(table, resolved_markets, traders,
                                          prediction_table, ts, failing, mock),
                   error |-> "None"]

----------------------------------------------------------------------------

(* Bounded arguments *)

SeqsUpTo(S, n) == UNION {[1..k -> S] : k \in 0..n}

MaxLevels == 3

Levels ==
    { Level(Num(Rat(60, 100)), Num(Rat(100, 1))),    \* a well-formed level
      Level(Num(Rat(62, 100)), Num(Rat(100, 1))),    \* another one
      Level(Num(Rat(150, 100)), Num(Rat(300, 1))),   \* a price above 1
      Level(Num(Zero), Num(Rat(100, 1))),            \* price 0
      Level(Num(Rat(-50, 100)), Num(Rat(100, 1))),   \* a negative price
      Level(Num(Rat(150, 100)), Num(Zero)),          \* size 0
      Level(Str(Rat(62, 100)), Num(Rat(300, 1))),    \* the price as a string
      Level(Bad, Num(Rat(100, 1))),                  \* a price float() refuses
      Level(Num(NaN), Num(Rat(100, 1))),             \* a NaN price
      Level(Missing, Missing) }                      \* the empty dict

MaxPredictions == 3

Predictions ==
    {Zero, Rat(3, 10), Rat(8, 10), One, Rat(15, 10), Rat(-2, 10), NaN}
Outcomes == {0, 1, 2}

MaxOrders == 4

OrderBook ==
    { Order("t1", "BUY", Rat(40, 100), Rat(100, 1)),
      Order("t1", "SELL", Rat(60, 100), Rat(100, 1)),
      Order("t2", "BUY", Rat(20, 100), Rat(300, 1)),
      Order("t2", "SELL", Rat(90, 100), Rat(100, 1)),
      Order("t2", "BUY", Rat(150, 100), Rat(100, 1)),   \* a price above 1
      Order("t3", "SELL", Rat(60, 100), Zero),          \* size 0
      Order("t3", "BUY", Rat(50, 100), Rat(200, 1)),
      Order("t1", "BUY", NaN, Rat(100, 1)) }            \* a NaN price

\* Nothing has been handed to the price functions
PriceIdle ==
    /\ bids = <<>>
    /\ asks = <<>>
    /\ true_price = NoCall
    /\ mid_price = NoCall

BrierIdle ==
    /\ predictions = <<>>
    /\ outcomes = <<>>
    /\ brier_score = NoCall

RationalityIdle ==
    /\ orders = <<>>
    /\ metrics = NoCall

NumMarkets == 2
MaxCycles == 2

MarketIds == 1..NumMarkets

L60 == Level(Num(Rat(60, 100)), Num(Rat(100, 1)))
L62 == Level(Num(Rat(62, 100)), Num(Rat(100, 1)))
LHigh == Level(Num(Rat(150, 100)), Num(Rat(300, 1)))
LZeroSize == Level(Num(Rat(150, 100)), Num(Zero))

\* A row as ingestion writes it: the mid price of the book beside the book
BookRow(ts, b, a) == SnapshotRow(ts, BookData(b, a), calculate_mid_price(b, a))

\* What the market_snapshots table may hold for one market
SnapshotTables ==
    { {},                                               \* no snapshot yet
      {BookRow(1, <<L60>>, <<LHigh>>),
       BookRow(2, <<L60>>, <<L62>>)},                   \* two books
      {BookRow(1, <<L60>>, <<L62>>),
       SnapshotRow(2, Corrupt, Rat(61, 100))},          \* the latest is corrupt
      {SnapshotRow(1, NotObject, Rat(61, 100))},        \* JSON, but no object
      {BookRow(1, <<>>, <<L62>>)},                      \* a one-sided book
      {BookRow(1, <<>>, <<>>)},                         \* an empty book
      {BookRow(1, <<LZeroSize>>, <<LZeroSize>>)} }      \* no volume

NoSession == [open |-> FALSE, new |-> <<>>, users |-> {}]
OpenSession == [open |-> TRUE, new |-> <<>>, users |-> {}]

\* Mutant: db.close() is the last statement of the try block and is not
\* reached when the block raises
CloseAfterTry(s, error) == IF error = "None" THEN NoSession ELSE s

\* finally: db.close() of the loops (aggregator/main.py:106-107,
\* alerts/main.py:82-83, leaderboard/main.py:180-181) and of
\* process_market_with_session (ingestion/main.py:109-110): the session is
\* closed whatever the try block raised
CloseInFinally(s, error) == NoSession

\* process_market(market.id, db), check_alert_rule(rule, db): the task is
\* handed the cycle's session and queries, commits and rolls back on it
UseSession(s, unit) == [s EXCEPT !.users = @ \cup {unit}]

AggIdle ==
    /\ markets = <<>>
    /\ market_snapshots = [m \in MarketIds |-> {}]
    /\ true_prices = <<>>
    /\ session = NoSession
    /\ tasks = <<>>
    /\ results = [m \in MarketIds |-> "-"]
    /\ cycle_error = "None"
    /\ now = 0
    /\ aggPc = "off"

MaxItems == 2

\* What the JSON of a response may hold
Payloads == SeqsUpTo({"item1", "item2", "malformed"}, MaxItems)

FetchIdle ==
    /\ endpoint = "orders"
    /\ retries = 0
    /\ delay = initial_delay
    /\ attempt_log = <<>>
    /\ slept = <<>>
    /\ fetch_result = NoFetch
    /\ fetchPc = "idle"

MaxRounds == 2

Threshold == Rat(5, 100)

\* The true_prices table the rules are checked against: market 1 breaches
\* (its older row does not), market 2 is below the threshold, market 3 is at
\* the threshold, market 4 has mid price 0, market 5 a NaN mid price,
\* market 6 a negative mid price, and market 7 has no row
AlertTruePrices ==
    << TruePriceRow(1, 2, Rat(70, 100), Rat(60, 100)),
       TruePriceRow(1, 1, Rat(61, 100), Rat(60, 100)),
       TruePriceRow(2, 1, Rat(61, 100), Rat(60, 100)),
       TruePriceRow(3, 1, Rat(63, 100), Rat(60, 100)),
       TruePriceRow(4, 1, Rat(50, 100), Zero),
       TruePriceRow(5, 1, Rat(62, 100), NaN),
       TruePriceRow(6, 1, Rat(-50, 100), Rat(-50, 100)) >>

\* A rule list from the markets and conditions of its rules: the rule at
\* place i has id i
RuleList(picks) ==
    [i \in 1..Len(picks) |-> AlertRule(i, picks[i][1], Threshold, picks[i][2])]

RuleLists ==
    { RuleList(<< <<1, "above">> >>),
      RuleList(<< <<1, "below">> >>),
      RuleList(<< <<2, "below">>, <<2, "above">> >>),
      RuleList(<< <<3, "above">>, <<3, "below">> >>),
      RuleList(<< <<4, "below">>, <<5, "below">>, <<7, "above">> >>),
      RuleList(<< <<6, "below">> >>),
      RuleList(<< <<6, "above">> >>),
      RuleList(<< <<1, "above">>, <<2, "below">> >>),
      RuleList(<< <<4, "above">>, <<1, "above">>, <<5, "above">> >>) }

AlertIdle ==
    /\ alert_rules = <<>>
    /\ alert_notifications = <<>>
    /\ emails = <<>>
    /\ rule_tasks = <<>>
    /\ alert_log = <<>>
    /\ alert_session = NoSession
    /\ alert_now = 0
    /\ alertPc = "off"

MaxRuleRows == 2

\* The alert_rules tables: the row at place i has id i
RuleTables ==
    UNION {{[i \in 1..k |-> RuleRow(i, f[i][1], Threshold, f[i][2], f[i][3])] :
               f \in [1..k -> {1, 2} \X {"above", "below"} \X BOOLEAN]} :
           k \in 0..MaxRuleRows}

LoopIdle ==
    /\ rule_rows = <<>>
    /\ alert_error = "None"

EmailIdle ==
    /\ email_retries = 0
    /\ email_delay = 0
    /\ email_attempts = <<>>
    /\ email_slept = <<>>
    /\ email_result = "none"
    /\ emailPc = "off"

HistIdle ==
    /\ trades = <<>>
    /\ hist_market = <<>>
    /\ trader_predictions = <<>>
    /\ hist_metrics = NoCall

ScoreIdle ==
    /\ score_markets = <<>>
    /\ score_traders = <<>>
    /\ score_predictions = <<>>
    /\ trader_score_rows = <<>>
    /\ score_session = NoSession
    /\ score_error = "None"
    /\ score_now = 0
    /\ scorePc = "off"

IngestIdle ==
    /\ master_session = NoSession
    /\ market_sessions = [m \in MarketIds |-> NoSession]
    /\ poll_tasks = {}
    /\ poll_orders = [m \in MarketIds |-> <<>>]
    /\ poll_results = [m \in MarketIds |-> "-"]
    /\ poll_now = 0
    /\ pollPc = "off"

ServiceIdle == service_result = NoCall

StepIdle == running = 0 /\ added = {}

MoreIdle == ScoreIdle /\ IngestIdle /\ ServiceIdle /\ StepIdle

RestIdle == LoopIdle /\ EmailIdle /\ HistIdle /\ MoreIdle

----------------------------------------------------------------------------
(* The price functions on bounded books *)

PriceInit ==
    /\ bids \in SeqsUpTo(Levels, MaxLevels)
    /\ asks \in SeqsUpTo(Levels, MaxLevels - Len(bids))
    /\ true_price = NoCall
    /\ mid_price = NoCall
    /\ BrierIdle
    /\ RationalityIdle
    /\ AggIdle
    /\ FetchIdle
    /\ AlertIdle
    /\ RestIdle

CallTruePrice ==
    /\ true_price = NoCall
    /\ true_price' = Ret(calculate_true_price(bids, asks))
    /\ UNCHANGED <<bids, asks, mid_price, brierVars, rationalityVars, aggVars, fetchVars, alertVars, restVars>>

CallMidPrice ==
    /\ mid_price = NoCall
    /\ mid_price' = Ret(calculate_mid_price(bids, asks))
    /\ UNCHANGED <<bids, asks, true_price, brierVars, rationalityVars, aggVars, fetchVars, alertVars, restVars>>

PriceNext == CallTruePrice \/ CallMidPrice

PriceSpec == PriceInit /\ [][PriceNext]_vars

----------------------------------------------------------------------------
(* calculate_brier_score on bounded sequences *)

BrierInit ==
    /\ predictions \in SeqsUpTo(Predictions, MaxPredictions)
    /\ outcomes \in SeqsUpTo(Outcomes, MaxPredictions)
    /\ brier_score = NoCall
    /\ PriceIdle
    /\ RationalityIdle
    /\ AggIdle
    /\ FetchIdle
    /\ AlertIdle
    /\ RestIdle

CallBrierScore ==
    /\ brier_score = NoCall
    /\ brier_score' = calculate_brier_score(predictions, outcomes)
    /\ UNCHANGED <<predictions, outcomes, priceVars, rationalityVars, aggVars, fetchVars, alertVars, restVars>>

BrierNext == CallBrierScore

BrierSpec == BrierInit /\ [][BrierNext]_vars

----------------------------------------------------------------------------
(* calculate_active_rationality on bounded order lists *)

RationalityInit ==
    /\ orders \in SeqsUpTo(OrderBook, MaxOrders)
    /\ metrics = NoCall
    /\ PriceIdle
    /\ BrierIdle
    /\ AggIdle
    /\ FetchIdle
    /\ AlertIdle
    /\ RestIdle

CallActiveRationality ==
    /\ metrics = NoCall
    /\ metrics' = Ret(calculate_active_rationality(orders))
    /\ UNCHANGED <<orders, priceVars, brierVars, aggVars, fetchVars, alertVars, restVars>>

RationalityNext == CallActiveRationality

RationalitySpec == RationalityInit /\ [][RationalityNext]_vars

----------------------------------------------------------------------------
(* fetch_active_orders / fetch_trades: one call, through _retry_request *)

FetchInit ==
    /\ endpoint \in {"orders", "trades"}
    /\ retries = 0
    /\ delay = initial_delay
    /\ attempt_log = <<>>
    /\ slept = <<>>
    /\ fetch_result = NoFetch
    /\ fetchPc = "call"
    /\ PriceIdle
    /\ BrierIdle
    /\ RationalityIdle
    /\ AggIdle
    /\ AlertIdle
    /\ RestIdle

\* Line 26 with a response: _retry_request returns it and the fetch parses it
AttemptSucceeds ==
    /\ fetchPc = "call"
    /\ retries < max_retries
    /\ \E data \in Payloads :
          /\ attempt_log' = Append(attempt_log, Got(data))
          /\ fetch_result' = FetchReturn(Got(data))
    /\ fetchPc' = "done"
    /\ UNCHANGED <<endpoint, retries, delay, slept>>
    /\ UNCHANGED <<priceVars, brierVars, rationalityVars, aggVars, alertVars, restVars>>

\* Lines 27-34: a RequestError; it is raised when the retries are used up,
\* and otherwise the delay is slept
AttemptFailsRequest ==
    /\ fetchPc = "call"
    /\ retries < max_retries
    /\ \E e \in {x \in RequestErrors \cup OtherErrors : IsRequestError(x)} :
          /\ attempt_log' = Append(attempt_log, Threw(e))
          /\ retries' = retries + 1
          /\ IF RetriesExhausted(retries + 1)
             THEN /\ fetch_result' = FetchReturn(Threw(e))
                  /\ fetchPc' = "done"
             ELSE /\ fetch_result' = fetch_result
                  /\ fetchPc' = "sleep"
    /\ UNCHANGED <<endpoint, delay, slept>>
    /\ UNCHANGED <<priceVars, brierVars, rationalityVars, aggVars, alertVars, restVars>>

\* Lines 35-37: any other exception is logged and raised at once
AttemptFailsOther ==
    /\ fetchPc = "call"
    /\ retries < max_retries
    /\ \E e \in {x \in RequestErrors \cup OtherErrors : ~IsRequestError(x)} :
          /\ attempt_log' = Append(attempt_log, Threw(e))
          /\ fetch_result' = FetchReturn(Threw(e))
    /\ fetchPc' = "done"
    /\ UNCHANGED <<endpoint, retries, delay, slept>>
    /\ UNCHANGED <<priceVars, brierVars, rationalityVars, aggVars, alertVars, restVars>>

\* Lines 33-34: asyncio.sleep(delay) is over, the delay is multiplied
Backoff ==
    /\ fetchPc = "sleep"
    /\ slept' = Append(slept, delay)
    /\ delay' = NextDelay(delay)
    /\ fetchPc' = "call"
    /\ UNCHANGED <<endpoint, retries, attempt_log, fetch_result>>
    /\ UNCHANGED <<priceVars, brierVars, rationalityVars, aggVars, alertVars, restVars>>

FetchNext == AttemptSucceeds \/ AttemptFailsRequest \/ AttemptFailsOther \/ Backoff

FetchSpec == FetchInit /\ [][FetchNext]_vars

----------------------------------------------------------------------------
(* Rounds of check_alert_rule tasks over given rule models, as lines 63-85 *)
(* of check_alerts run them: one session, gather, close.                   *)

RuleInit ==
    /\ alert_rules \in RuleLists
    /\ alert_notifications = <<>>
    /\ emails = <<>>
    /\ rule_tasks = <<>>
    /\ alert_log = <<>>
    /\ alert_session = NoSession
    /\ alert_now = 0
    /\ alertPc = "idle"
    /\ true_prices = AlertTruePrices
    /\ markets = <<>>
    /\ market_snapshots = [m \in MarketIds |-> {}]
    /\ session = NoSession
    /\ tasks = <<>>
    /\ results = [m \in MarketIds |-> "-"]
    /\ cycle_error = "None"
    /\ now = 0
    /\ aggPc = "off"
    /\ PriceIdle
    /\ BrierIdle
    /\ RationalityIdle
    /\ FetchIdle
    /\ RestIdle

\* Lines 64, 72-73: a session is opened and the tasks are handed to gather
OpenRound ==
    /\ alertPc = "idle"
    /\ alert_now < MaxRounds
    /\ alert_now' = alert_now + 1
    /\ alert_session' = OpenSession
    /\ rule_tasks' = [i \in 1..Len(alert_rules) |-> i]
    /\ alertPc' = "gather"
    /\ UNCHANGED <<alert_rules, alert_notifications, emails, alert_log>>
    /\ UNCHANGED <<priceVars, brierVars, rationalityVars, aggVars, fetchVars, restVars>>

\* gather runs the next task: check_alert_rule has no suspension point
CheckAlertRule ==
    /\ alertPc = "gather"
    /\ rule_tasks # <<>>
    /\ \E fault \in {"none", "read", "commit"} :
          LET i == Head(rule_tasks)
              out == check_alert_rule(alert_rules[i], true_prices, fault, alert_now)
          IN  /\ alert_notifications' = alert_notifications \o out.committed
              /\ emails' = emails \o out.created
              /\ alert_log' = Append(alert_log,
                     [alert_rule_id |-> i, timestamp |-> alert_now, result |-> out.result])
              /\ rule_tasks' = GatherRest(rule_tasks, out.result)
              /\ alert_session' = UseSession(alert_session, alert_rules[i].id)
    /\ UNCHANGED <<alert_rules, alert_now, alertPc>>
    /\ UNCHANGED <<priceVars, brierVars, rationalityVars, aggVars, fetchVars, restVars>>

\* Lines 74-85: the results are logged, the session closed, 5 s slept
CloseRound ==
    /\ alertPc = "gather"
    /\ rule_tasks = <<>>
    /\ alert_session' = NoSession
    /\ alertPc' = "idle"
    /\ UNCHANGED <<alert_rules, alert_notifications, emails, rule_tasks, alert_log,
                   alert_now>>
    /\ UNCHANGED <<priceVars, brierVars, rationalityVars, aggVars, fetchVars, restVars>>

\* An email task runs to its return; it works on its arguments only
RunEmail ==
    /\ \E i \in DOMAIN emails :
          /\ emails[i].status = "scheduled"
          /\ \E smtp \in {"sent", "SMTPServerDisconnected", "SMTPException", "Exception"} :
                emails' = [emails EXCEPT ![i].status = send_alert_email(smtp)]
    /\ UNCHANGED <<alert_rules, alert_notifications, rule_tasks, alert_log,
                   alert_session, alert_now, alertPc>>
    /\ UNCHANGED <<priceVars, brierVars, rationalityVars, aggVars, fetchVars, restVars>>

RuleNext == OpenRound \/ CheckAlertRule \/ CloseRound \/ RunEmail

RuleSpec == RuleInit /\ [][RuleNext]_vars

----------------------------------------------------------------------------
(* check_alerts: the alert loop over the alert_rules table *)

AlertInit ==
    /\ rule_rows \in RuleTables
    /\ alert_error = "None"
    /\ alert_rules = <<>>
    /\ alert_notifications = <<>>
    /\ emails = <<>>
    /\ rule_tasks = <<>>
    /\ alert_log = <<>>
    /\ alert_session = NoSession
    /\ alert_now = 0
    /\ alertPc = "idle"
    /\ true_prices = AlertTruePrices
    /\ markets = <<>>
    /\ market_snapshots = [m \in MarketIds |-> {}]
    /\ session = NoSession
    /\ tasks = <<>>
    /\ results = [m \in MarketIds |-> "-"]
    /\ cycle_error = "None"
    /\ now = 0
    /\ aggPc = "off"
    /\ PriceIdle
    /\ BrierIdle
    /\ RationalityIdle
    /\ FetchIdle
    /\ EmailIdle
    /\ HistIdle
    /\ MoreIdle

\* Lines 64-83, one pass of the loop up to the gather: the session is
\* opened and the active rules are queried; the query may raise; without
\* active rules there is nothing to do; otherwise the tasks are built from
\* the rule models, and an exception of that is caught by line 80.  The
\* session is closed on every way that ends the pass.
CheckAlerts ==
    /\ alertPc = "idle"
    /\ alert_now < MaxRounds
    /\ alert_now' = alert_now + 1
    /\ \E fault \in {"none", "read"} :
          LET active == ActiveRules(rule_rows)
              models == RuleModels(active)
              caught == IF fault = "read" THEN "SQLAlchemyError"
                        ELSE IF active = <<>> THEN "None"
                        ELSE IF models.st = "raise" THEN models.v
                        ELSE "None"
          IN  IF fault = "none" /\ active # <<>> /\ models.st = "return"
              THEN /\ alert_rules' = models.v
                   /\ rule_tasks' = [i \in DOMAIN models.v |-> i]
                   /\ alert_session' = OpenSession
                   /\ alert_error' = "None"
                   /\ alertPc' = "gather"
              ELSE /\ alert_rules' = <<>>
                   /\ rule_tasks' = <<>>
                   /\ alert_session' = CloseInFinally(OpenSession, caught)
                   /\ alert_error' = caught
                   /\ alertPc' = AfterCycle(caught)
    /\ UNCHANGED <<alert_notifications, emails, alert_log, rule_rows>>
    /\ UNCHANGED <<priceVars, brierVars, rationalityVars, aggVars, fetchVars, emailVars,
                   histVars, moreVars>>

\* Line 85: asyncio.sleep(5) is over
AlertSleep ==
    /\ alertPc = "sleep"
    /\ alertPc' = "idle"
    /\ UNCHANGED <<alert_rules, alert_notifications, emails, rule_tasks, alert_log,
                   alert_session, alert_now, loopVars>>
    /\ UNCHANGED <<priceVars, brierVars, rationalityVars, aggVars, fetchVars, emailVars,
                   histVars, moreVars>>

AlertNext == CheckAlerts \/ AlertSleep

AlertSpec == AlertInit /\ [][AlertNext]_vars

----------------------------------------------------------------------------

(* send_alert_email, one attempt and one sleep at a time *)

EmailInit ==
    /\ email_retries = 0
    /\ email_delay = email_initial_delay
    /\ email_attempts = <<>>
    /\ email_slept = <<>>
    /\ email_result = "none"
    /\ emailPc = "try"
    /\ PriceIdle
    /\ BrierIdle
    /\ RationalityIdle
    /\ AggIdle
    /\ FetchIdle
    /\ AlertIdle
    /\ LoopIdle
    /\ HistIdle
    /\ MoreIdle

\* Lines 172-195: the message is sent and True returned
EmailAttemptSucceeds ==
    /\ emailPc = "try"
    /\ email_attempts' = Append(email_attempts, "sent")
    /\ email_result' = "True"
    /\ emailPc' = "done"
    /\ UNCHANGED <<email_retries, email_delay, email_slept>>
    /\ UNCHANGED <<priceVars, brierVars, rationalityVars, aggVars, fetchVars,
                   alertVars, loopVars, histVars, moreVars>>

\* Lines 198-221: the attempt raises.  The first two handlers count the
\* retry and either give up or go on to sleep; the third returns False.
EmailAttemptFails ==
    /\ emailPc = "try"
    /\ \E e \in SMTPExceptions \cup OSErrors :
          /\ email_attempts' = Append(email_attempts, e)
          /\ IF EmailRetried(e)
             THEN /\ email_retries' = email_retries + 1
                  /\ IF EmailExhausted(email_retries + 1)
                     THEN email_result' = "False" /\ emailPc' = "done"
                     ELSE email_result' = email_result /\ emailPc' = "sleep"
             ELSE /\ email_retries' = email_retries
                  /\ email_result' = "False"
                  /\ emailPc' = "done"
    /\ UNCHANGED <<email_delay, email_slept>>
    /\ UNCHANGED <<priceVars, brierVars, rationalityVars, aggVars, fetchVars,
                   alertVars, loopVars, histVars, moreVars>>

\* Lines 204-206 and 214-216: asyncio.sleep(delay), then the delay doubles
\* and the loop goes round
EmailBackoff ==
    /\ emailPc = "sleep"
    /\ email_slept' = Append(email_slept, email_delay)
    /\ email_delay' = EmailNextDelay(email_delay)
    /\ emailPc' = "try"
    /\ UNCHANGED <<email_retries, email_attempts, email_result>>
    /\ UNCHANGED <<priceVars, brierVars, rationalityVars, aggVars, fetchVars,
                   alertVars, loopVars, histVars, moreVars>>

EmailNext == EmailAttemptSucceeds \/ EmailAttemptFails \/ EmailBackoff

EmailSpec == EmailInit /\ [][EmailNext]_vars

\* An attempt ends (the connection has timeout=10) and a sleep ends, so a
\* step that can be taken is taken
EmailFairSpec == EmailSpec /\ WF_vars(EmailNext)

----------------------------------------------------------------------------

(* calculate_historical_rationality on bounded trades and tables *)

MaxTrades == 2
MaxPredictionRows == 2

TraderIds == {"A", "B", "C"}

Trade(maker) == [makerAddress |-> maker]

TradeLists == SeqsUpTo({Trade(t) : t \in TraderIds}, MaxTrades)

PredictionTables ==
    SeqsUpTo({PredictionRow(t, v) : t \in {"A", "B"}, v \in {Rat(8, 10), Rat(15, 10)}},
             MaxPredictionRows)

HistInit ==
    /\ trades \in TradeLists
    /\ hist_market \in {<<>>, <<MarketRow(1)>>}
    /\ trader_predictions \in PredictionTables
    /\ hist_metrics = NoCall
    /\ PriceIdle
    /\ BrierIdle
    /\ RationalityIdle
    /\ AggIdle
    /\ FetchIdle
    /\ AlertIdle
    /\ LoopIdle
    /\ EmailIdle
    /\ MoreIdle

CallHistoricalRationality ==
    /\ hist_metrics = NoCall
    /\ \E failing \in SUBSET TraderIds :
          hist_metrics' =
              Ret(calculate_historical_rationality(trades, hist_market,
                                                   trader_predictions, failing))
    /\ UNCHANGED <<trades, hist_market, trader_predictions>>
    /\ UNCHANGED <<priceVars, brierVars, rationalityVars, aggVars, fetchVars,
                   alertVars, loopVars, emailVars, moreVars>>

HistNext == CallHistoricalRationality

HistSpec == HistInit /\ [][HistNext]_vars

----------------------------------------------------------------------------

(* RationalityService.get_active and get_historical: the fetch of the      *)
(* client, then the calculator on what it gave                             *)

\* Order.parse_obj / Trade.parse_obj of an item of the response
ParsedOrder(item) ==
    IF item = "item1" THEN Order("t1", "BUY", Rat(60, 100), Rat(100, 1))
    ELSE Order("t2", "SELL", Rat(150, 100), Zero)

ParsedTrade(item) == IF item = "item1" THEN Trade("A") ELSE Trade("B")

\* Lines 33-34: orders = await self.client.fetch_active_orders(market_id),
\* then the calculator; an exception of the fetch leaves get_active
get_active(fetched) ==
    IF fetched.st = "raise" THEN Raised
    ELSE Ret(calculate_active_rationality(
                 [i \in DOMAIN fetched.v |-> ParsedOrder(fetched.v[i])]))

\* Lines 46-47: trades = await self.client.fetch_trades(market_id), then the
\* calculator
get_historical(fetched, market, table, failing) ==
    IF fetched.st = "raise" THEN Raised
    ELSE Ret(calculate_historical_rationality(
                 [i \in DOMAIN fetched.v |-> ParsedTrade(fetched.v[i])],
                 market, table, failing))

ServiceInit ==
    /\ endpoint \in {"orders", "trades"}
    /\ retries = 0
    /\ delay = initial_delay
    /\ attempt_log = <<>>
    /\ slept = <<>>
    /\ fetch_result = NoFetch
    /\ fetchPc = "call"
    /\ service_result = NoCall
    /\ trades = <<>>
    /\ hist_market \in {<<>>, <<MarketRow(1)>>}
    /\ trader_predictions \in {<<>>, <<PredictionRow("A", Rat(8, 10))>>}
    /\ hist_metrics = NoCall
    /\ ScoreIdle
    /\ IngestIdle
    /\ StepIdle
    /\ PriceIdle
    /\ BrierIdle
    /\ RationalityIdle
    /\ AggIdle
    /\ AlertIdle
    /\ LoopIdle
    /\ EmailIdle

\* The fetch has returned or raised: get_active / get_historical goes on
\* with the calculator and hands its result to the caller
ServiceCalculate ==
    /\ fetchPc = "done"
    /\ service_result = NoCall
    /\ IF endpoint = "orders"
       THEN service_result' = get_active(fetch_result)
       ELSE \E failing \in SUBSET {"A", "B"} :
               service_result' = get_historical(fetch_result, hist_market,
                                                trader_predictions, failing)
    /\ UNCHANGED <<priceVars, brierVars, rationalityVars, aggVars, fetchVars,
                   alertVars, loopVars, emailVars, histVars, scoreVars, ingestVars, stepVars>>

ServiceNext == FetchNext \/ ServiceCalculate

ServiceSpec == ServiceInit /\ [][ServiceNext]_vars

----------------------------------------------------------------------------

(* update_trader_scores_periodically: the trader-score loop *)

MaxScoreCycles == 2

ScoreTraderIds == {"A", "B"}

ScorePredictionTables ==
    SeqsUpTo({ScorePredictionRow(t, m, v) :
                 t \in ScoreTraderIds, m \in MarketIds, v \in {Rat(8, 10), Rat(15, 10)}},
             MaxPredictionRows)

ScoreInit ==
    /\ score_markets \in {[i \in 1..k |-> MarketRow(i)] : k \in 0..NumMarkets}
    /\ score_traders \in {<<>>, <<"A">>, <<"A", "B">>}
    /\ score_predictions \in ScorePredictionTables
    /\ trader_score_rows = <<>>
    /\ score_session = NoSession
    /\ score_error = "None"
    /\ score_now = 0
    /\ scorePc = "idle"
    /\ IngestIdle
    /\ ServiceIdle
    /\ StepIdle
    /\ PriceIdle
    /\ BrierIdle
    /\ RationalityIdle
    /\ AggIdle
    /\ FetchIdle
    /\ AlertIdle
    /\ LoopIdle
    /\ EmailIdle
    /\ HistIdle

\* Lines 172-175: db = next(get_db())
ScoreStart ==
    /\ scorePc = "idle"
    /\ score_now < MaxScoreCycles
    /\ score_now' = score_now + 1
    /\ score_session' = OpenSession
    /\ score_error' = "None"
    /\ scorePc' = "update"
    /\ UNCHANGED <<score_markets, score_traders, score_predictions, trader_score_rows>>
    /\ UNCHANGED <<priceVars, brierVars, rationalityVars, aggVars, fetchVars,
                   alertVars, loopVars, emailVars, histVars, ingestVars, serviceVars, stepVars>>

\* Line 176: await calculate_and_store_real_trader_scores(db); the function
\* catches what it raises and awaits nothing that suspends
ScoreUpdate ==
    /\ scorePc = "update"
    /\ \E fault \in {"none", "query", "commit"}, failing \in SUBSET ScoreTraderIds,
          mock \in [DOMAIN score_markets -> {0, 1}] :
          LET out == calculate_and_store_real_trader_scores(
                         score_markets, score_traders, score_predictions,
                         trader_score_rows, score_now, fault, failing, mock)
          IN  /\ trader_score_rows' = out.table
              /\ score_error' = out.error
    /\ score_session' = UseSession(score_session, "scores")
    /\ scorePc' = "close"
    /\ UNCHANGED <<score_markets, score_traders, score_predictions, score_now>>
    /\ UNCHANGED <<priceVars, brierVars, rationalityVars, aggVars, fetchVars,
                   alertVars, loopVars, emailVars, histVars, ingestVars, serviceVars, stepVars>>

\* Lines 180-181: finally: db.close()
ScoreFinish ==
    /\ scorePc = "close"
    /\ score_session' = CloseInFinally(score_session, "None")
    /\ scorePc' = "sleep"
    /\ UNCHANGED <<score_markets, score_traders, score_predictions, trader_score_rows,
                   score_error, score_now>>
    /\ UNCHANGED <<priceVars, brierVars, rationalityVars, aggVars, fetchVars,
                   alertVars, loopVars, emailVars, histVars, ingestVars, serviceVars, stepVars>>

\* Line 183: asyncio.sleep(3600) is over
ScoreSleep ==
    /\ scorePc = "sleep"
    /\ scorePc' = "idle"
    /\ UNCHANGED <<score_markets, score_traders, score_predictions, trader_score_rows,
                   score_session, score_error, score_now>>
    /\ UNCHANGED <<priceVars, brierVars, rationalityVars, aggVars, fetchVars,
                   alertVars, loopVars, emailVars, histVars, ingestVars, serviceVars, stepVars>>

ScoreNext == ScoreStart \/ ScoreUpdate \/ ScoreFinish \/ ScoreSleep

ScoreSpec == ScoreInit /\ [][ScoreNext]_vars

\* The state before the first update of lines 98-155: a markets table with
\* a row, traders, and no, one or two predictions
ScoreBodyInit ==
    /\ score_markets \in {[i \in 1..k |-> MarketRow(i)] : k \in 1..NumMarkets}
    /\ score_traders \in {<<"A">>, <<"A", "B">>}
    /\ \E r, q \in {ScorePredictionRow(t, m, v) :
                       t \in ScoreTraderIds, m \in MarketIds,
                       v \in {Rat(8, 10), Rat(15, 10)}} :
          score_predictions \in {<<>>, <<r>>, <<r, q>>}
    /\ trader_score_rows = <<>>
    /\ score_session = NoSession
    /\ score_error = "None"
    /\ score_now = 0
    /\ scorePc = "idle"
    /\ IngestIdle
    /\ ServiceIdle
    /\ StepIdle
    /\ PriceIdle
    /\ BrierIdle
    /\ RationalityIdle
    /\ AggIdle
    /\ FetchIdle
    /\ AlertIdle
    /\ LoopIdle
    /\ EmailIdle
    /\ HistIdle

\* Lines 98-155 run over the rows of the markets table, as they run once
\* the statement of line 94 has given its rows: the traders are read, every
\* market and trader is gone through and the one commit of line 154 writes
\* what the session holds, or fails and leaves the table as it was
ScoreBody ==
    /\ scorePc = "idle"
    /\ score_now < MaxScoreCycles
    /\ score_now' = score_now + 1
    /\ \E fault \in {"none", "commit"}, failing \in SUBSET ScoreTraderIds,
          mock \in [DOMAIN score_markets -> {0, 1}] :
          IF score_markets = <<>> \/ score_traders = <<>>
          THEN /\ trader_score_rows' = trader_score_rows
               /\ score_error' = "None"
          ELSE IF fault = "commit"
          THEN /\ trader_score_rows' = trader_score_rows
               /\ score_error' = "SQLAlchemyError"
          ELSE /\ trader_score_rows' =
                      ScoreMarkets(trader_score_rows, score_markets, score_traders,
                                   score_predictions, score_now + 1, failing, mock)
               /\ score_error' = "None"
    /\ UNCHANGED <<score_markets, score_traders, score_predictions, score_session,
                   scorePc>>
    /\ UNCHANGED <<priceVars, brierVars, rationalityVars, aggVars, fetchVars,
                   alertVars, loopVars, emailVars, histVars, ingestVars, serviceVars, stepVars>>

ScoreBodySpec == ScoreBodyInit /\ [][ScoreBody]_vars

----------------------------------------------------------------------------

(* aggregate_market_data: the aggregation loop *)

AggInit ==
    /\ markets \in {[i \in 1..k |-> i] : k \in 0..NumMarkets}
    /\ market_snapshots \in [MarketIds -> SnapshotTables]
    /\ \A m \in MarketIds : m > Len(markets) => market_snapshots[m] = {}
    /\ true_prices = <<>>
    /\ session = NoSession
    /\ tasks = <<>>
    /\ results = [m \in MarketIds |-> "-"]
    /\ cycle_error = "None"
    /\ now = 0
    /\ aggPc = "idle"
    /\ PriceIdle
    /\ BrierIdle
    /\ RationalityIdle
    /\ FetchIdle
    /\ AlertIdle
    /\ RestIdle

\* Lines 87-95: a session is opened and the markets are queried; with
\* markets the tasks are handed to gather
StartCycle ==
    /\ aggPc = "idle"
    /\ now < MaxCycles
    /\ now' = now + 1
    /\ session' = OpenSession
    /\ results' = [m \in MarketIds |-> "-"]
    /\ cycle_error' = "None"
    /\ tasks' = markets
    /\ aggPc' = "gather"
    /\ UNCHANGED <<markets, market_snapshots, true_prices>>
    /\ UNCHANGED <<priceVars, brierVars, rationalityVars, fetchVars, alertVars, restVars>>

\* Lines 90, 101-107: the query of the markets raises; the error is logged
\* and the session closed
StartCycleFails ==
    /\ aggPc = "idle"
    /\ now < MaxCycles
    /\ now' = now + 1
    /\ session' = CloseInFinally(OpenSession, "SQLAlchemyError")
    /\ results' = [m \in MarketIds |-> "-"]
    /\ cycle_error' = "SQLAlchemyError"
    /\ tasks' = <<>>
    /\ aggPc' = AfterCycle("SQLAlchemyError")
    /\ UNCHANGED <<markets, market_snapshots, true_prices>>
    /\ UNCHANGED <<priceVars, brierVars, rationalityVars, fetchVars, alertVars, restVars>>

\* gather runs the next task: process_market has no suspension point, it
\* runs from its query to its commit or rollback in one step
ProcessMarket ==
    /\ aggPc = "gather"
    /\ tasks # <<>>
    /\ \E fault \in {"none", "read", "commit"} :
          LET market_id == Head(tasks)
              out == process_market(market_id, market_snapshots[market_id], fault, now)
          IN  /\ true_prices' = true_prices \o out.committed
              /\ results' = [results EXCEPT ![market_id] = out.result]
              /\ tasks' = GatherRest(tasks, out.result)
              /\ session' = UseSession(session, market_id)
    /\ UNCHANGED <<markets, market_snapshots, cycle_error, now, aggPc>>
    /\ UNCHANGED <<priceVars, brierVars, rationalityVars, fetchVars, alertVars, restVars>>

\* Lines 97-107: the results are logged and the session closed
FinishCycle ==
    /\ aggPc = "gather"
    /\ tasks = <<>>
    /\ session' = CloseInFinally(session, cycle_error)
    /\ aggPc' = AfterCycle(cycle_error)
    /\ UNCHANGED <<markets, market_snapshots, true_prices, tasks, results,
                   cycle_error, now>>
    /\ UNCHANGED <<priceVars, brierVars, rationalityVars, fetchVars, alertVars, restVars>>

\* Line 110: asyncio.sleep(settings.aggregation_interval) is over
Sleep ==
    /\ aggPc = "sleep"
    /\ aggPc' = "idle"
    /\ UNCHANGED <<markets, market_snapshots, true_prices, session, tasks,
                   results, cycle_error, now>>
    /\ UNCHANGED <<priceVars, brierVars, rationalityVars, fetchVars, alertVars, restVars>>

AggNext == StartCycle \/ StartCycleFails \/ ProcessMarket \/ FinishCycle \/ Sleep

AggSpec == AggInit /\ [][AggNext]_vars

----------------------------------------------------------------------------
(* The tasks of a cycle statement by statement: gather starts a task, the  *)
(* task runs up to its db.add, and then to its commit or rollback; another *)
(* task gets the event loop only where the running one suspends.           *)

TasksWithout(ts, unit) == SelectSeq(ts, LAMBDA x : x # unit)

\* The event loop is free and gives it to the task that has waited longest:
\* the tasks are run in the order gather was given them, and a task that
\* suspends goes to the end
TaskRun ==
    /\ running = 0
    /\ \/ aggPc = "gather" /\ tasks # <<>> /\ running' = Head(tasks)
       \/ alertPc = "gather" /\ rule_tasks # <<>> /\ running' = Head(rule_tasks)
    /\ UNCHANGED added
    /\ UNCHANGED <<priceVars, brierVars, rationalityVars, aggVars, fetchVars,
                   alertVars, loopVars, emailVars, histVars, scoreVars,
                   ingestVars, serviceVars>>

\* process_market from its query to db.add (lines 115-146 and 172-180 of
\* aggregator/main.py): a task that returns or raises before the add is
\* over, the others hold their record in the session
MarketTaskAdds ==
    /\ aggPc = "gather"
    /\ running # 0
    /\ running \notin added
    /\ \E fault \in {"none", "read"} :
          LET out == process_market(running, market_snapshots[running], fault, now)
          IN  IF out.committed = <<>>
              THEN /\ results' = [results EXCEPT ![running] = out.result]
                   /\ tasks' = TasksWithout(tasks, running)
                   /\ session' = UseSession(session, running)
                   /\ running' = 0
                   /\ added' = added
              ELSE /\ session' = Pending(UseSession(session, running), out.committed[1])
                   /\ added' = added \cup {running}
                   /\ running' = IF Suspends("process_market", "add") THEN 0 ELSE running
                   /\ tasks' = IF Suspends("process_market", "add")
                               THEN Append(TasksWithout(tasks, running), running)
                               ELSE tasks
                   /\ results' = results
    /\ UNCHANGED <<markets, market_snapshots, true_prices, cycle_error, now, aggPc>>
    /\ UNCHANGED <<priceVars, brierVars, rationalityVars, fetchVars, alertVars,
                   loopVars, emailVars, histVars, scoreVars, ingestVars, serviceVars>>

\* Lines 181 and 209-217: db.commit(), and db.rollback() when it raises
MarketTaskCommits ==
    /\ aggPc = "gather"
    /\ running # 0
    /\ running \in added
    /\ \E fault \in {"none", "commit"} :
          /\ true_prices' = IF fault = "commit" THEN true_prices
                            ELSE true_prices \o session.new
          /\ results' = [results EXCEPT ![running] =
                            IF fault = "commit" THEN "SQLAlchemyError" ELSE "None"]
    /\ session' = Emptied(session)
    /\ tasks' = TasksWithout(tasks, running)
    /\ added' = added \ {running}
    /\ running' = 0
    /\ UNCHANGED <<markets, market_snapshots, cycle_error, now, aggPc>>
    /\ UNCHANGED <<priceVars, brierVars, rationalityVars, fetchVars, alertVars,
                   loopVars, emailVars, histVars, scoreVars, ingestVars, serviceVars>>

\* check_alert_rule from its query to db.add (lines 92-141 of
\* alerts/main.py); the email task is created before the add
RuleTaskAdds ==
    /\ alertPc = "gather"
    /\ running # 0
    /\ running \notin added
    /\ \E fault \in {"none", "read"} :
          LET out == check_alert_rule(alert_rules[running], true_prices, fault, alert_now)
          IN  /\ emails' = emails \o out.created
              /\ IF out.committed = <<>>
                 THEN /\ alert_log' = Append(alert_log,
                             [alert_rule_id |-> running, timestamp |-> alert_now,
                              result |-> out.result])
                      /\ rule_tasks' = TasksWithout(rule_tasks, running)
                      /\ alert_session' = UseSession(alert_session, alert_rules[running].id)
                      /\ running' = 0
                      /\ added' = added
                 ELSE /\ alert_session' =
                             Pending(UseSession(alert_session, alert_rules[running].id),
                                     out.committed[1])
                      /\ added' = added \cup {running}
                      /\ running' = IF Suspends("check_alert_rule", "add") THEN 0
                                    ELSE running
                      /\ rule_tasks' = IF Suspends("check_alert_rule", "add")
                                        THEN Append(TasksWithout(rule_tasks, running), running)
                                        ELSE rule_tasks
                      /\ alert_log' = alert_log
    /\ UNCHANGED <<alert_rules, alert_notifications, alert_now, alertPc>>
    /\ UNCHANGED <<priceVars, brierVars, rationalityVars, aggVars, fetchVars,
                   loopVars, emailVars, histVars, scoreVars, ingestVars, serviceVars>>

\* Lines 142-154: db.commit(), and db.rollback() when it raises
RuleTaskCommits ==
    /\ alertPc = "gather"
    /\ running # 0
    /\ running \in added
    /\ \E fault \in {"none", "commit"} :
          /\ alert_notifications' = IF fault = "commit" THEN alert_notifications
                                    ELSE alert_notifications \o alert_session.new
          /\ alert_log' = Append(alert_log,
                [alert_rule_id |-> running, timestamp |-> alert_now,
                 result |-> IF fault = "commit" THEN "SQLAlchemyError" ELSE "None"])
    /\ alert_session' = Emptied(alert_session)
    /\ rule_tasks' = TasksWithout(rule_tasks, running)
    /\ added' = added \ {running}
    /\ running' = 0
    /\ UNCHANGED <<alert_rules, emails, alert_now, alertPc>>
    /\ UNCHANGED <<priceVars, brierVars, rationalityVars, aggVars, fetchVars,
                   loopVars, emailVars, histVars, scoreVars, ingestVars, serviceVars>>

StepInit == AggInit \/ RuleInit

StepNext ==
    \/ StartCycle \/ StartCycleFails \/ FinishCycle \/ Sleep
    \/ OpenRound \/ CloseRound
    \/ TaskRun \/ MarketTaskAdds \/ MarketTaskCommits \/ RuleTaskAdds \/ RuleTaskCommits

StepSpec == StepInit /\ [][StepNext]_vars

----------------------------------------------------------------------------

(* poll_polymarket: the ingestion loop, beside the aggregation loop that   *)
(* reads what it stores                                                    *)

MaxPolls == 1

\* What fetch_active_orders gives the task for what _retry_request ended
\* with
FetchedOrders(outcome) ==
    LET fetched == FetchReturn(outcome).v
    IN  [i \in DOMAIN fetched |-> ParsedOrder(fetched[i])]

\* The order lists a task of ingestion may be given: those of a response
\* without items, with one or two orders or with an item that does not parse,
\* and that of a fetch whose retries were used up
FetchedOrderLists ==
    {FetchedOrders(Got(data)) :
        data \in {<<>>, <<"item1">>, <<"item1", "item2">>, <<"malformed">>}}
    \cup {FetchedOrders(Threw(e)) : e \in RequestErrors}

\* The state before the first poll, over the markets table ms, each market
\* with one snapshot of a valid book; pc is where the aggregation loop is
IngestStart(ms, pc) ==
    /\ markets = ms
    /\ market_snapshots =
           [m \in MarketIds |-> IF m <= Len(markets)
                                THEN {BookRow(0, <<L60>>, <<L62>>)} ELSE {}]
    /\ true_prices = <<>>
    /\ session = NoSession
    /\ tasks = <<>>
    /\ results = [m \in MarketIds |-> "-"]
    /\ cycle_error = "None"
    /\ now = 0
    /\ aggPc = pc
    /\ master_session = NoSession
    /\ market_sessions = [m \in MarketIds |-> NoSession]
    /\ poll_tasks = {}
    /\ poll_orders = [m \in MarketIds |-> <<>>]
    /\ poll_results = [m \in MarketIds |-> "-"]
    /\ poll_now = 0
    /\ pollPc = "idle"
    /\ ScoreIdle
    /\ ServiceIdle
    /\ StepIdle
    /\ PriceIdle
    /\ BrierIdle
    /\ RationalityIdle
    /\ FetchIdle
    /\ AlertIdle
    /\ LoopIdle
    /\ EmailIdle
    /\ HistIdle

\* Ingestion alone, over a markets table with one market or more
PollInit == \E k \in 1..NumMarkets : IngestStart([i \in 1..k |-> i], "off")

\* Ingestion over one market, beside the aggregation loop that reads what
\* it stores
IngestInit == IngestStart(<<1>>, "idle") \/ PollInit

\* Line 70: master_db = next(get_db())
PollOpen ==
    /\ pollPc = "idle"
    /\ poll_now < MaxPolls
    /\ poll_now' = poll_now + 1
    /\ master_session' = OpenSession
    /\ poll_results' = [m \in MarketIds |-> "-"]
    /\ poll_orders' = [m \in MarketIds |-> <<>>]
    /\ pollPc' = "markets"
    /\ UNCHANGED <<market_sessions, poll_tasks>>
    /\ UNCHANGED <<priceVars, brierVars, rationalityVars, aggVars, fetchVars,
                   alertVars, loopVars, emailVars, histVars, scoreVars,
                   serviceVars, stepVars>>

\* Lines 72-85: the markets are read, fetch_markets_from_db giving [] when
\* the query raises, and the master session is closed; with markets a task
\* is made for each and handed to gather
PollMarkets ==
    /\ pollPc = "markets"
    /\ master_session' = UseSession(NoSession, "markets")
    /\ \E fault \in {"none", "read"} :
          IF fault = "read" \/ markets = <<>>
          THEN /\ poll_tasks' = {}
               /\ pollPc' = "sleep"
          ELSE /\ poll_tasks' = {markets[i] : i \in DOMAIN markets}
               /\ pollPc' = "gather"
    /\ UNCHANGED <<market_sessions, poll_orders, poll_results, poll_now>>
    /\ UNCHANGED <<priceVars, brierVars, rationalityVars, aggVars, fetchVars,
                   alertVars, loopVars, emailVars, histVars, scoreVars,
                   serviceVars, stepVars>>

\* Lines 103-105 and 145: the task opens a session of its own and waits for
\* fetch_active_orders
IngestOpen ==
    /\ pollPc = "gather"
    /\ \E m \in poll_tasks :
          /\ ~market_sessions[m].open
          /\ \A k \in poll_tasks : k < m => market_sessions[k].open
          /\ market_sessions' = [market_sessions EXCEPT ![m] = OpenSession]
    /\ UNCHANGED <<master_session, poll_tasks, poll_orders, poll_results, poll_now,
                   pollPc>>
    /\ UNCHANGED <<priceVars, brierVars, rationalityVars, aggVars, fetchVars,
                   alertVars, loopVars, emailVars, histVars, scoreVars,
                   serviceVars, stepVars>>

\* Lines 145-183 and 106-110: the fetch has given its orders, the snapshot
\* is made and stored, and the task's session is closed whatever happened
IngestStore ==
    /\ pollPc = "gather"
    /\ \A k \in poll_tasks : market_sessions[k].open
    /\ \E m \in poll_tasks :
          /\ market_sessions[m].open
          /\ \E os \in FetchedOrderLists, fault \in {"none", "commit"} :
                LET out == fetch_and_store_market_data(os, poll_now, fault)
                IN  /\ poll_orders' = [poll_orders EXCEPT ![m] = os]
                    /\ market_snapshots' =
                           [market_snapshots EXCEPT ![m] = @ \cup out.committed]
                    /\ poll_results' = [poll_results EXCEPT ![m] = out.result]
                    /\ market_sessions' =
                           [market_sessions EXCEPT
                               ![m] = UseSession(CloseInFinally(@, out.result), m)]
          /\ poll_tasks' = poll_tasks \ {m}
    /\ UNCHANGED <<master_session, poll_now, pollPc>>
    /\ UNCHANGED <<markets, true_prices, session, tasks, results, cycle_error, now,
                   aggPc>>
    /\ UNCHANGED <<priceVars, brierVars, rationalityVars, fetchVars,
                   alertVars, loopVars, emailVars, histVars, scoreVars,
                   serviceVars, stepVars>>

\* Lines 85-89: gather has every result
PollFinish ==
    /\ pollPc = "gather"
    /\ poll_tasks = {}
    /\ pollPc' = "sleep"
    /\ UNCHANGED <<master_session, market_sessions, poll_tasks, poll_orders,
                   poll_results, poll_now>>
    /\ UNCHANGED <<priceVars, brierVars, rationalityVars, aggVars, fetchVars,
                   alertVars, loopVars, emailVars, histVars, scoreVars,
                   serviceVars, stepVars>>

\* Line 94: asyncio.sleep(settings.aggregation_interval) is over
PollSleep ==
    /\ pollPc = "sleep"
    /\ pollPc' = "idle"
    /\ UNCHANGED <<master_session, market_sessions, poll_tasks, poll_orders,
                   poll_results, poll_now>>
    /\ UNCHANGED <<priceVars, brierVars, rationalityVars, aggVars, fetchVars,
                   alertVars, loopVars, emailVars, histVars, scoreVars,
                   serviceVars, stepVars>>

PollNext == PollOpen \/ PollMarkets \/ IngestOpen \/ IngestStore \/ PollFinish \/ PollSleep

IngestNext == PollNext \/ AggNext

IngestSpec == IngestInit /\ [][IngestNext]_vars

----------------------------------------------------------------------------

(* What the claims about the price functions speak of, stated without the  *)
(* loops of the code                                                       *)

Book == bids \o asks

\* A level float() reads as price > 0 and size > 0
ValidLevel(l) ==
    /\ l.price.k \in {"num", "str"}
    /\ l.size.k \in {"num", "str"}
    /\ FGt(l.price.x, Zero)
    /\ FGt(l.size.x, Zero)

ValidIdx(s) == {i \in 1..Len(s) : ValidLevel(s[i])}

RECURSIVE SumValue(_, _)
SumValue(s, S) ==
    IF S = {} THEN Zero
    ELSE LET i == CHOOSE j \in S : TRUE
         IN  FAdd(FMul(s[i].price.x, s[i].size.x), SumValue(s, S \ {i}))

RECURSIVE SumSize(_, _)
SumSize(s, S) ==
    IF S = {} THEN Zero
    ELSE LET i == CHOOSE j \in S : TRUE
         IN  FAdd(s[i].size.x, SumSize(s, S \ {i}))

VWAP(s) == FDiv(SumValue(s, ValidIdx(s)), SumSize(s, ValidIdx(s)))

InUnitRange(x) == FGe(x, Zero) /\ FLe(x, One)

Clamped(x) == IF FLt(x, Zero) THEN Zero ELSE IF FGt(x, One) THEN One ELSE x

\* The indices of the levels whose price is an int or a float
NumericIdx(s) == {i \in 1..Len(s) : s[i].price.k = "num"}
FirstNumeric(s) == CHOOSE i \in NumericIdx(s) : \A j \in NumericIdx(s) : i <= j
\* The numeric prices that are not NaN
RealPrices(s) == {s[i].price.x : i \in {j \in NumericIdx(s) : ~isnan(s[j].price.x)}}
Highest(S) == CHOOSE x \in S : \A y \in S : FGe(x, y)
Lowest(S) == CHOOSE x \in S : \A y \in S : FLe(x, y)
Mean2(x, y) == FDiv(FAdd(x, y), Two)

\* C3: whatever the book, calculate_true_price returns NaN or a value in
\* [0, 1], the zero-volume path that falls back to the mid price included.
C3_TruePriceInUnitRange ==
    true_price.st = "return" =>
        (isnan(true_price.v) \/ InUnitRange(true_price.v))

\* C4, as stated: when bids is empty or asks is empty, calculate_true_price
\* returns what calculate_mid_price returns.
C4_EmptySideEqualsMid ==
    (true_price.st = "return" /\ mid_price.st = "return"
        /\ (bids = <<>> \/ asks = <<>>))
    => true_price.v = mid_price.v

\* C4, amended: when bids is empty or asks is empty, calculate_true_price
\* returns what calculate_mid_price returns (NaN) exactly when no level of
\* the other side has price > 0 and size > 0; when one has, it returns the
\* clamped VWAP of those levels, and calculate_mid_price still returns NaN.
C4_EmptySideEqualsMidIffNoValidLevel ==
    (true_price.st = "return" /\ mid_price.st = "return"
        /\ (bids = <<>> \/ asks = <<>>))
    => /\ isnan(mid_price.v)
       /\ (true_price.v = mid_price.v) <=> (ValidIdx(Book) = {})
       /\ ValidIdx(Book) # {} => true_price.v = Clamped(VWAP(Book))

C4_Witness ==
    /\ bids = <<>>
    /\ asks # <<>>
    /\ ValidIdx(asks) = {}
    /\ true_price.st = "return"
    /\ mid_price.st = "return"
    /\ true_price.v = mid_price.v

\* C5: when some level has price > 0 and size > 0, calculate_true_price is
\* the volume-weighted average price over exactly those levels of both
\* sides, clamped to [0, 1]; bids (0.60, 100) and asks (0.62, 100) give 0.61.
C5_TruePriceIsClampedVWAP ==
    /\ (true_price.st = "return" /\ ValidIdx(Book) # {})
        => true_price.v = Clamped(VWAP(Book))
    /\ (true_price.st = "return"
            /\ bids = <<Level(Num(Rat(60, 100)), Num(Rat(100, 1)))>>
            /\ asks = <<Level(Num(Rat(62, 100)), Num(Rat(100, 1)))>>)
        => true_price.v = Rat(61, 100)

\* A book with a valid level, a skipped level and a level float() refuses
C5_Witness ==
    /\ true_price.st = "return"
    /\ ValidIdx(Book) # {}
    /\ \E i \in 1..Len(Book) : FloatRaises(Book[i].price)
    /\ \E i \in 1..Len(Book) :
          Book[i].price.k = "num" /\ FLt(Book[i].price.x, Zero)
    /\ FGt(true_price.v, Zero) /\ FLt(true_price.v, One)

\* C6: when the valid levels have no volume, calculate_true_price returns
\* exactly calculate_mid_price(bids, asks); it returns NaN only then, and
\* only when that mid price is NaN.
C6_ZeroVolumeFallsBackToMid ==
    (true_price.st = "return" /\ mid_price.st = "return")
    => /\ ValidIdx(Book) = {} => true_price.v = mid_price.v
       /\ isnan(true_price.v) => (ValidIdx(Book) = {} /\ isnan(mid_price.v))

\* The fallback gives a number, not NaN
C6_Witness ==
    /\ true_price.st = "return"
    /\ mid_price.st = "return"
    /\ Book # <<>>
    /\ ValidIdx(Book) = {}
    /\ ~isnan(true_price.v)
    /\ true_price.v = mid_price.v

----------------------------------------------------------------------------
(* The claims about calculate_brier_score *)

OutsideUnitRange(x) == isnan(x) \/ FLt(x, Zero) \/ FGt(x, One)

BrierDomainError ==
    \/ Len(predictions) # Len(outcomes)
    \/ \E i \in 1..Len(predictions) : OutsideUnitRange(predictions[i])
    \/ \E i \in 1..Len(outcomes) : outcomes[i] # 0 /\ outcomes[i] # 1

RECURSIVE SumSquares(_)
SumSquares(S) ==
    IF S = {} THEN Zero
    ELSE LET i == CHOOSE j \in S : TRUE
             e == FSub(predictions[i], Rat(outcomes[i], 1))
         IN  FAdd(FMul(e, e), SumSquares(S \ {i}))

\* C8: calculate_brier_score raises exactly when the lengths differ, a
\* prediction is outside [0, 1] or an outcome is outside {0, 1}; it returns
\* NaN exactly when both sequences are empty.
C8_BrierRaisesIffOutOfDomain ==
    brier_score.st # "none" =>
        /\ (brier_score.st = "raise") <=> BrierDomainError
        /\ (brier_score.st = "return" /\ isnan(brier_score.v))
               <=> (predictions = <<>> /\ outcomes = <<>>)

\* Equal lengths, every prediction in range, the last outcome is 2: raised
C8_Witness ==
    /\ brier_score.st = "raise"
    /\ Len(predictions) = Len(outcomes)
    /\ Len(predictions) >= 2
    /\ \A i \in 1..Len(predictions) : ~OutsideUnitRange(predictions[i])
    /\ \A i \in 1..(Len(outcomes) - 1) : outcomes[i] \in {0, 1}
    /\ outcomes[Len(outcomes)] = 2

\* C9: on non-empty, equal-length, in-domain arguments calculate_brier_score
\* returns the mean of (prediction_i - outcome_i)^2, a value in [0, 1];
\* predictions [0.8, 0.3] with outcomes [1, 0] give 0.065.
C9_BrierIsMeanSquaredError ==
    /\ (brier_score.st # "none" /\ predictions # <<>> /\ ~BrierDomainError)
        => /\ brier_score.st = "return"
           /\ FMul(brier_score.v, Rat(Len(predictions), 1))
                  = SumSquares(1..Len(predictions))
           /\ InUnitRange(brier_score.v)
    /\ (brier_score.st # "none"
            /\ predictions = <<Rat(8, 10), Rat(3, 10)>> /\ outcomes = <<1, 0>>)
        => brier_score = Ret(Rat(65, 1000))

C9_Witness ==
    /\ predictions = <<Rat(8, 10), Rat(3, 10)>>
    /\ outcomes = <<1, 0>>
    /\ brier_score = Ret(Rat(65, 1000))

----------------------------------------------------------------------------
(* The claims about calculate_active_rationality *)

TraderIdx(t) == {i \in 1..Len(orders) : orders[i].makerAddress = t}

RECURSIVE SizeOver(_)
SizeOver(S) ==
    IF S = {} THEN Zero
    ELSE LET i == CHOOSE j \in S : TRUE
         IN  FAdd(orders[i].size, SizeOver(S \ {i}))

\* The sum over the traders T of score times the trader's share of the size
RECURSIVE ShareWeighted(_, _)
ShareWeighted(T, scores) ==
    IF T = {} THEN Zero
    ELSE LET t == CHOOSE u \in T : TRUE
             share == FDiv(SizeOver(TraderIdx(t)), SizeOver(1..Len(orders)))
         IN  FAdd(FMul(scores[t], share), ShareWeighted(T \ {t}, scores))

\* C10: for a non-empty order list the overallScore is the size-weighted
\* average of the perTraderScore values, so it lies between the lowest and
\* the highest per-trader score.
C10_OverallScoreIsConvexCombination ==
    (metrics.st = "return" /\ orders # <<>>) =>
        LET scores == metrics.v.perTraderScore
            overall == metrics.v.overallScore
            T == DOMAIN scores
        IN  /\ T = {orders[i].makerAddress : i \in 1..Len(orders)}
            /\ \E t \in T : FLe(scores[t], overall)
            /\ \E t \in T : FGe(scores[t], overall)
            /\ FGt(SizeOver(1..Len(orders)), Zero)
                   => overall = ShareWeighted(T, scores)

\* Two traders with different scores and the overall score strictly between
C10_Witness ==
    /\ metrics.st = "return"
    /\ orders # <<>>
    /\ \E t, u \in DOMAIN metrics.v.perTraderScore :
          /\ FLt(metrics.v.perTraderScore[t], metrics.v.overallScore)
          /\ FLt(metrics.v.overallScore, metrics.v.perTraderScore[u])


SideIdx(side) == {i \in 1..Len(orders) : orders[i].side = side}

FirstOf(S) == CHOOSE i \in S : \A j \in S : i <= j

RealPricesOf(S) == {orders[i].price : i \in {j \in S : ~isnan(orders[j].price)}}

\* The best price of a side as max and min take it: a NaN price that comes
\* first stays, a later one never wins
BestBid == IF isnan(orders[FirstOf(SideIdx("BUY"))].price) THEN NaN
           ELSE Highest(RealPricesOf(SideIdx("BUY")))

BestAsk == IF isnan(orders[FirstOf(SideIdx("SELL"))].price) THEN NaN
           ELSE Lowest(RealPricesOf(SideIdx("SELL")))

NoNaNPrice == \A i \in 1..Len(orders) : ~isnan(orders[i].price)

\* C11 as stated: the consensus price is the midpoint of the highest BUY
\* price and the lowest SELL price over all orders, and 0.5 when there is no
\* BUY order or no SELL order (order lists without NaN prices).
C11_ConsensusIsMidpointOfBest ==
    (metrics.st = "return" /\ orders # <<>> /\ NoNaNPrice) =>
        ConsensusPrice(orders) =
            IF SideIdx("BUY") = {} \/ SideIdx("SELL") = {} THEN Rat(1, 2)
            ELSE Mean2(BestBid, BestAsk)

\* C11: the consensus price is the midpoint of the best BUY price and the
\* best SELL price over all orders when both sides are present and that
\* midpoint is a number in [0, 1]; it is 0.5 when a side is absent and when
\* the midpoint is NaN or outside [0, 1].
C11_ConsensusIsMidpointOfBestWithinUnitRange ==
    (metrics.st = "return" /\ orders # <<>>) =>
        ConsensusPrice(orders) =
            IF SideIdx("BUY") = {} \/ SideIdx("SELL") = {} THEN Rat(1, 2)
            ELSE IF isnan(Mean2(BestBid, BestAsk)) THEN Rat(1, 2)
            ELSE IF ~InUnitRange(Mean2(BestBid, BestAsk)) THEN Rat(1, 2)
            ELSE Mean2(BestBid, BestAsk)

\* Both sides are present with several BUY prices, and the midpoint of the
\* best prices, which is not 0.5, is the consensus
C11_Witness ==
    /\ metrics.st = "return"
    /\ Cardinality(RealPricesOf(SideIdx("BUY"))) >= 2
    /\ SideIdx("SELL") # {}
    /\ NoNaNPrice
    /\ ConsensusPrice(orders) = Mean2(BestBid, BestAsk)
    /\ ConsensusPrice(orders) # Rat(1, 2)

\* The orders of trader t with a price in [0, 1]
ValidIdxOf(t) == {i \in TraderIdx(t) : InUnitRange(orders[i].price)}

RECURSIVE SquaredDeviationOver(_, _)
SquaredDeviationOver(S, c) ==
    IF S = {} THEN Zero
    ELSE LET i == CHOOSE j \in S : TRUE
             d == FSub(orders[i].price, c)
         IN  FAdd(FMul(FMul(d, d), orders[i].size), SquaredDeviationOver(S \ {i}, c))

\* The size-weighted mean squared deviation from c of the in-domain order
\* prices of trader t
MeanSquaredDeviation(t, c) ==
    FDiv(SquaredDeviationOver(ValidIdxOf(t), c), SizeOver(ValidIdxOf(t)))

\* C12: every per-trader score and the overall score is in [0, 1] and not
\* NaN, and the score of a trader whose in-domain orders have a positive
\* total size is 1 minus the size-weighted mean squared deviation of those
\* orders' prices from the consensus price, clamped to [0, 1].
C12_TraderScoreIsOneMinusMeanSquaredDeviation ==
    (metrics.st = "return" /\ orders # <<>>) =>
        /\ InUnitRange(metrics.v.overallScore)
        /\ \A t \in DOMAIN metrics.v.perTraderScore :
              /\ InUnitRange(metrics.v.perTraderScore[t])
              /\ FGt(SizeOver(ValidIdxOf(t)), Zero) =>
                    metrics.v.perTraderScore[t] =
                        Clamped(FSub(One, MeanSquaredDeviation(t, ConsensusPrice(orders))))

Without(i) == SubSeq(orders, 1, i - 1) \o SubSeq(orders, i + 1, Len(orders))

\* C13: with an order whose price is NaN or outside [0, 1], every trader
\* who has other orders has the score the order list without that order
\* gives.
C13_InvalidOrderIsAsIfAbsent ==
    (metrics.st = "return") =>
        \A i \in 1..Len(orders) :
            InvalidPrice(orders[i].price) =>
                LET absent == calculate_active_rationality(Without(i))
                IN  \A t \in DOMAIN absent.perTraderScore :
                        metrics.v.perTraderScore[t] = absent.perTraderScore[t]

----------------------------------------------------------------------------
(* What the claims about the aggregation cycle speak of *)

Listed == 1..Len(markets)

\* The places in true_prices of the records of a market written in cycle t
StoredIn(m, t) ==
    {i \in DOMAIN true_prices :
        true_prices[i].market_id = m /\ true_prices[i].timestamp = t}

Processed(m) == results[m] # "-"

HasSnapshot(m) == market_snapshots[m] # {}

\* The greatest-timestamp snapshot of a market that has one
Newest(m) ==
    CHOOSE r \in market_snapshots[m] :
        \A q \in market_snapshots[m] : q.timestamp <= r.timestamp

Undecodable(m) == Newest(m).raw_data.kind # "book"

ComputedTruePrice(m) ==
    calculate_true_price(Newest(m).raw_data.bids, Newest(m).raw_data.asks)

\* The payload does not decode, or the true price or the mid price is NaN
Rejected(m) ==
    \/ Undecodable(m)
    \/ isnan(ComputedTruePrice(m))
    \/ isnan(Newest(m).mid_price)

ValidSnapshot(m) == HasSnapshot(m) /\ ~Rejected(m)

\* Exactly one record of this cycle, with the computed true price and the
\* mid price of the latest snapshot
OneRecord(m) ==
    /\ Cardinality(StoredIn(m, now)) = 1
    /\ \A i \in StoredIn(m, now) :
          /\ true_prices[i].value = ComputedTruePrice(m)
          /\ true_prices[i].mid_price = Newest(m).mid_price

\* The processing of the market failed: its payload did not decode, or its
\* task raised
Failed(m) ==
    \/ HasSnapshot(m) /\ Newest(m).raw_data.kind = "corrupt"
    \/ results[m] \notin {"-", "None"}

\* A cycle that queried its markets has run its tasks
CycleOver == aggPc \in {"sleep", "idle"} /\ now > 0 /\ cycle_error = "None"

C2_RejectedOrExactlyOneRecord ==
    \A m \in Listed :
        (Processed(m) /\ HasSnapshot(m)) =>
            IF Rejected(m) THEN StoredIn(m, now) = {} ELSE OneRecord(m)

\* C2: a processed market has no record of this cycle if it has no snapshot,
\* if its payload does not decode, if its true price or mid price is NaN, or
\* if its task raised (the snapshot query or the commit failed); otherwise
\* it has exactly one, with the computed true price and the mid price of its
\* latest snapshot.
C2_RejectedOrRaisedOrExactlyOneRecord ==
    \A m \in Listed :
        Processed(m) =>
            IF ~HasSnapshot(m) \/ Rejected(m) \/ results[m] # "None"
            THEN StoredIn(m, now) = {}
            ELSE OneRecord(m)

\* In the second cycle a market with an older and a newer book has stored
\* one record in each cycle, and a market whose latest payload is corrupt
\* none
C2_Witness ==
    /\ now = 2
    /\ \E m \in Listed :
          /\ Cardinality(market_snapshots[m]) = 2
          /\ ValidSnapshot(m) /\ results[m] = "None"
          /\ OneRecord(m) /\ StoredIn(m, 1) # {}
    /\ \E m \in Listed :
          /\ HasSnapshot(m) /\ Undecodable(m)
          /\ results[m] = "None" /\ StoredIn(m, now) = {}


----------------------------------------------------------------------------
(* What the claims about the retry policy speak of *)

Transient(a) == a.kind = "error" /\ a.v \in {"ConnectError", "ReadTimeout"}

NonTransient(a) == a.kind = "error" /\ a.v \in {"HTTPStatusError", "JSONDecodeError"}

WellFormed(a) == a.kind = "data" /\ \A i \in 1..Len(a.v) : a.v[i] # "malformed"

RECURSIVE Pow2(_)
Pow2(k) == IF k = 0 THEN 1 ELSE 2 * Pow2(k - 1)

RECURSIVE SumSeq(_)
SumSeq(q) == IF q = <<>> THEN 0 ELSE Head(q) + SumSeq(Tail(q))

\* The first k attempts failed transiently and attempt k+1 gave a response
\* that parses
FailedThenSucceeded(k) ==
    /\ fetchPc = "done"
    /\ Len(attempt_log) = k + 1
    /\ \A i \in 1..k : Transient(attempt_log[i])
    /\ WellFormed(attempt_log[k + 1])

\* C14: when the first k < max_retries attempts fail transiently and attempt
\* k+1 succeeds, the caller gets the list of that response, and the delays
\* slept are 1, 2, ..., 2^(k-1), in total 2^k - 1.
C14_SuccessAfterTransientFailures ==
    \A k \in 0..(max_retries - 1) :
        FailedThenSucceeded(k) =>
            /\ fetch_result = [st |-> "return", v |-> attempt_log[k + 1].v]
            /\ slept = [i \in 1..k |-> Pow2(i - 1)]
            /\ SumSeq(slept) = Pow2(k) - 1

\* Two failures, then a response with items: the caller has them after a
\* total delay of 1 + 2
C14_Witness ==
    /\ FailedThenSucceeded(2)
    /\ fetch_result.st = "return"
    /\ fetch_result.v # <<>>
    /\ SumSeq(slept) = 1 + 2

\* C15: a failure that is not transient is not retried: when the first
\* attempt fails so, it is the only attempt, nothing is slept, and the
\* fetch raises to its caller.
C15_NonTransientFailurePropagates ==
    (fetchPc = "done" /\ NonTransient(attempt_log[1])) =>
        /\ Len(attempt_log) = 1
        /\ slept = <<>>
        /\ fetch_result.st = "raise"

\* C16: there are never more than max_retries attempts and nothing is slept
\* after the last one; when every attempt has failed transiently the call
\* ends after exactly max_retries attempts and max_retries - 1 sleeps, and
\* the fetch returns an empty list.
C16_ExhaustionReturnsEmpty ==
    /\ Len(attempt_log) <= max_retries
    /\ Len(attempt_log) = max_retries => fetchPc = "done"
    /\ (fetchPc = "done" /\ \A i \in 1..Len(attempt_log) : Transient(attempt_log[i])) =>
          /\ Len(attempt_log) = max_retries
          /\ Len(slept) = max_retries - 1
          /\ fetch_result = [st |-> "return", v |-> <<>>]

\* Every attempt has failed transiently and the call is over
C16_Witness ==
    /\ fetchPc = "done"
    /\ Len(attempt_log) = max_retries
    /\ \A i \in 1..Len(attempt_log) : Transient(attempt_log[i])
    /\ fetch_result = [st |-> "return", v |-> <<>>]


----------------------------------------------------------------------------
(* What the claims about check_alert_rule speak of *)

\* The notifications and the email tasks of rule r made in round t
Notified(r, t) ==
    {i \in DOMAIN alert_notifications :
        alert_notifications[i].alert_rule_id = r /\ alert_notifications[i].sent_at = t}

Emailed(r, t) ==
    {i \in DOMAIN emails : emails[i].alert_rule_id = r /\ emails[i].timestamp = t}

\* The latest TruePriceRecord of the market of rule r, when there is one
RecordsFor(r) ==
    {true_prices[i] : i \in {j \in DOMAIN true_prices :
                                true_prices[j].market_id = alert_rules[r].market_id}}

LatestFor(r) ==
    LET R == RecordsFor(r)
    IN  CHOOSE x \in R : \A y \in R : y.timestamp <= x.timestamp

RelativeDifference(r) ==
    LET x == LatestFor(r)
        gap == FSub(x.value, x.mid_price)
    IN  FDiv(IF FLt(gap, Zero) THEN FSub(Zero, gap) ELSE gap, x.mid_price)

Breach(r) ==
    LET d == RelativeDifference(r)
    IN  \/ alert_rules[r].condition = "above" /\ FGt(d, alert_rules[r].threshold)
        \/ alert_rules[r].condition = "below" /\ FLt(d, alert_rules[r].threshold)

\* C17: a rule checked against a latest record with a non-zero mid price
\* triggers (an email task is made and, when the write succeeds, a
\* notification with difference |true - mid| / mid is stored) exactly when it
\* is 'above' and the difference > threshold or 'below' and the difference
\* < threshold; at difference = threshold neither triggers.
C17_TriggersExactlyOnStrictBreach ==
    \A k \in DOMAIN alert_log :
        LET r == alert_log[k].alert_rule_id
            t == alert_log[k].timestamp
        IN  (RecordsFor(r) # {} /\ ~FEq(LatestFor(r).mid_price, Zero)) =>
                /\ ~Breach(r) => (Notified(r, t) = {} /\ Emailed(r, t) = {})
                /\ (Breach(r) /\ alert_log[k].result = "None") =>
                      (Notified(r, t) # {} /\ Emailed(r, t) # {})
                /\ \A i \in Notified(r, t) :
                      alert_notifications[i].difference = RelativeDifference(r)

\* An 'above' rule with threshold 0.05 has been checked against true price
\* 0.70 and mid price 0.60 and has its notification with difference 1/6
C17_Witness ==
    \E k \in DOMAIN alert_log :
        LET r == alert_log[k].alert_rule_id
            t == alert_log[k].timestamp
        IN  /\ alert_rules[r].condition = "above"
            /\ RecordsFor(r) # {}
            /\ LatestFor(r).value = Rat(70, 100)
            /\ LatestFor(r).mid_price = Rat(60, 100)
            /\ \E i \in Notified(r, t) :
                  alert_notifications[i].difference = Rat(1, 6)

\* C18: a checked rule whose market has no TruePriceRecord, or whose latest
\* record has a mid price that is zero, NaN or not positive, stores no
\* notification and makes no email.
C18_InvalidMidPriceIsSkipped ==
    \A k \in DOMAIN alert_log :
        LET r == alert_log[k].alert_rule_id
            t == alert_log[k].timestamp
        IN  (RecordsFor(r) = {} \/ ~FGt(LatestFor(r).mid_price, Zero)) =>
                (Notified(r, t) = {} /\ Emailed(r, t) = {})

\* C19: every email task made for a trigger has the notification of that
\* trigger in alert_notifications.
C19_EmailOnlyWithRecordedNotification ==
    \A i \in DOMAIN emails :
        Notified(emails[i].alert_rule_id, emails[i].timestamp) # {}

\* The result the task of rule r gave in round t
ResultOf(r, t) ==
    LET k == CHOOSE j \in DOMAIN alert_log :
                 alert_log[j].alert_rule_id = r /\ alert_log[j].timestamp = t
    IN  alert_log[k].result

\* C20: whatever became of the email, a trigger whose write succeeded has
\* exactly one notification in alert_notifications, and no task result is
\* anything but None or the database's error.
C20_FailedEmailLeavesNotification ==
    /\ \A i \in DOMAIN emails :
          LET r == emails[i].alert_rule_id
              t == emails[i].timestamp
          IN  ResultOf(r, t) = "None" => Cardinality(Notified(r, t)) = 1
    /\ \A k \in DOMAIN alert_log : alert_log[k].result \in {"None", "SQLAlchemyError"}

\* An email has failed, its notification is in the table, and a later round
\* has checked the rule again
C20_Witness ==
    \E i \in DOMAIN emails :
        /\ emails[i].status = "False"
        /\ Cardinality(Notified(emails[i].alert_rule_id, emails[i].timestamp)) = 1
        /\ emails[i].timestamp < alert_now
        /\ \E k \in DOMAIN alert_log :
              /\ alert_log[k].alert_rule_id = emails[i].alert_rule_id
              /\ alert_log[k].timestamp = alert_now
              /\ alert_log[k].result = "None"

\* C21: an evaluation of a rule that computes a breach and whose write
\* succeeds has exactly one notification of that rule in that round, and no
\* rule has more than one notification in a round, whatever became of the
\* email tasks.
C21_ExactlyOneNotificationPerBreach ==
    /\ \A k \in DOMAIN alert_log :
          LET r == alert_log[k].alert_rule_id
              t == alert_log[k].timestamp
          IN  (/\ alert_log[k].result = "None"
               /\ RecordsFor(r) # {}
               /\ ~FEq(LatestFor(r).mid_price, Zero)
               /\ Breach(r)) =>
                  Cardinality(Notified(r, t)) = 1
    /\ \A r \in DOMAIN alert_rules : \A t \in 1..MaxRounds :
          Cardinality(Notified(r, t)) <= 1

\* A breaching rule has been checked in both rounds, the emails of both
\* rounds are over, one sent and one failed, and each round has its one
\* notification
C21_Witness ==
    \E r \in DOMAIN alert_rules :
        /\ alert_now = 2
        /\ \A t \in 1..2 : Cardinality(Notified(r, t)) = 1
        /\ \E i \in Emailed(r, 1) : emails[i].status = "False"
        /\ \E i \in Emailed(r, 2) : emails[i].status = "True"

----------------------------------------------------------------------------
(* What the claims about the alert loop speak of *)

\* The active rows of the alert_rules table
ActiveIdx == {i \in DOMAIN rule_rows : rule_rows[i].is_active}

\* Rule r has been evaluated in round t: its task has given gather a result
Evaluated(r, t) ==
    \E k \in DOMAIN alert_log :
        alert_log[k].alert_rule_id = r /\ alert_log[k].timestamp = t

\* The active rule at which the pass failed, when it failed at a rule
FailedAt ==
    IF alert_error \in {"None", "SQLAlchemyError"} THEN {}
    ELSE {CHOOSE i \in ActiveIdx : \A j \in ActiveIdx : i <= j}

\* C22: when a pass of the alert loop is over and the rules could be read,
\* every active rule other than one at which something failed has been
\* evaluated in that pass.
C22_FailureDoesNotStopOtherRules ==
    (alertPc = "sleep" /\ alert_error # "SQLAlchemyError") =>
        \A i \in ActiveIdx \ FailedAt : Evaluated(rule_rows[i].id, alert_now)

----------------------------------------------------------------------------
(* What the claims about send_alert_email speak of *)

\* A failure of the connection: it cannot be made, or it is lost
ConnectionLevel(a) ==
    a \in {"SMTPServerDisconnected", "ConnectionRefusedError", "TimeoutError"}

\* A failure of the protocol: the server answers with an error
ProtocolLevel(a) ==
    a \in {"SMTPAuthenticationError", "SMTPRecipientsRefused", "SMTPDataError"}

\* C23: an attempt is followed by another one only after a connection-level
\* failure; an attempt that fails at the level of the protocol is the last
\* one, and the send returns False after it.
C23_ProtocolFailureIsNotRetried ==
    \A i \in DOMAIN email_attempts :
        /\ i < Len(email_attempts) => ConnectionLevel(email_attempts[i])
        /\ ProtocolLevel(email_attempts[i]) =>
              (i = Len(email_attempts) /\ emailPc = "done" /\ email_result = "False")

\* The waits before the retries: 1, 2, 4
Waits(k) == [i \in 1..k |-> Pow2(i - 1)]

\* C24: send_alert_email ends; it makes at most 4 attempts, the waits
\* before the retries are 1, 2 and 4 seconds; it returns True as soon as an
\* attempt succeeds, False when the retries are exhausted, and whatever an
\* attempt raises it returns True or False and raises nothing.
C24_EmailSendIsBounded ==
    /\ [](/\ Len(email_attempts) <= 4
          /\ email_slept = Waits(Len(email_slept))
          /\ Len(email_slept) <= 3
          /\ \A i \in DOMAIN email_attempts :
                email_attempts[i] = "sent" =>
                    (i = Len(email_attempts) /\ email_result = "True")
          /\ email_result = "True" =>
                email_attempts[Len(email_attempts)] = "sent"
          /\ (Len(email_attempts) = 4 /\ email_attempts[4] # "sent") =>
                (emailPc = "done" /\ email_result = "False")
          /\ email_result \in {"none", "True", "False"}
          /\ emailPc = "done" <=> email_result # "none")
    /\ <>(emailPc = "done")

\* Three attempts have failed, 1, 2 and 4 seconds have been slept, and the
\* fourth attempt has failed too: False is returned
C24_Witness ==
    /\ Len(email_attempts) = 4
    /\ email_attempts[4] # "sent"
    /\ email_slept = <<1, 2, 4>>
    /\ email_result = "False"
    /\ emailPc = "done"

----------------------------------------------------------------------------
(* The two loops, each in its own process.  A step that can be taken is    *)
(* taken: a query, a task and a sleep all end.                             *)

\* The four services, each with its loop: the alert loop and the loop of
\* the trader scores alone, ingestion beside the aggregation loop
SessionsInit == AlertInit \/ ScoreInit \/ IngestInit

SessionsNext == AggNext \/ AlertNext \/ ScoreNext \/ PollNext

SessionsSpec == SessionsInit /\ [][SessionsNext]_vars

LoopInit == AggInit \/ AlertInit

LoopNext == AggNext \/ AlertNext

\* ProcessMarket can be taken exactly when gather has a task left
GatherRuns == aggPc = "gather" /\ tasks # <<>>

\* Weak fairness of ProcessMarket, its enabling condition written out
GatherFair == []<>(~GatherRuns) \/ []<><<ProcessMarket>>_vars

LoopSpec ==
    /\ LoopInit /\ [][LoopNext]_vars
    /\ WF_vars(StartCycle \/ StartCycleFails \/ FinishCycle \/ Sleep)
    /\ GatherFair
    /\ WF_vars(AlertNext)

\* C25: neither loop ends, and a loop that is running begins every cycle
\* the bounds leave room for, one after the other, whatever the cycles
\* before it did: the count of cycles begun, which goes up by one with each
\* new cycle, gets to the bound.
C25_NextCycleAlwaysBegins ==
    /\ [](aggPc # "done" /\ alertPc # "done")
    /\ <>(/\ aggPc = "off" \/ now = MaxCycles
          /\ alertPc = "off" \/ alert_now = MaxRounds)

\* In the first cycle market 2, whose snapshot is valid, failed while
\* market 1 was stored; the second cycle could not read the markets and the
\* loop is in its sleep
C25_Witness ==
    /\ now = 2
    /\ aggPc = "sleep"
    /\ cycle_error = "SQLAlchemyError"
    /\ Len(markets) = 2
    /\ StoredIn(1, 1) # {}
    /\ ValidSnapshot(2)
    /\ StoredIn(2, 1) = {}

----------------------------------------------------------------------------
(* What the claim about sessions speaks of *)

\* C26: no session is used by more than one unit of work: the tasks of a
\* cycle each have a session of their own.
C26_EachUnitHasItsOwnSession ==
    /\ Cardinality(session.users) <= 1
    /\ Cardinality(alert_session.users) <= 1

----------------------------------------------------------------------------
(* What the claims about the stored true prices speak of *)

\* The markets whose tasks gather has still to run
Waiting == {tasks[i] : i \in DOMAIN tasks}

\* The rows of true_prices stay what and where they are
RowsKept == \A i \in DOMAIN true_prices :
                i \in DOMAIN true_prices' /\ true_prices'[i] = true_prices[i]

AppendedOnly ==
    /\ Len(true_prices') \in {Len(true_prices), Len(true_prices) + 1}
    /\ SubSeq(true_prices', 1, Len(true_prices)) = true_prices

\* C28: the aggregation only appends to true_prices; a market has at most
\* one record per cycle, and exactly one in a cycle in which its task ended
\* without an exception on a snapshot that is not rejected.
C28_TruePricesAreAppendOnly ==
    /\ [][AppendedOnly]_vars
    /\ [](\A m \in MarketIds : \A t \in 1..MaxCycles :
            /\ Cardinality(StoredIn(m, t)) <= 1
            /\ (m \in Listed /\ t = now /\ results[m] = "None" /\ ValidSnapshot(m)) =>
                  Cardinality(StoredIn(m, t)) = 1)

\* Two cycles have each stored the record of market 1, and the record of
\* the first cycle is still the first row of the table
C28_Witness ==
    /\ now = 2
    /\ Cardinality(StoredIn(1, 1)) = 1
    /\ Cardinality(StoredIn(1, 2)) = 1
    /\ true_prices[1].timestamp = 1
    /\ true_prices[Len(true_prices)].timestamp = 2

\* C29: every row of true_prices has a value in [0, 1]; NaN is in no row.
C29_StoredValueInUnitRange ==
    \A i \in DOMAIN true_prices : InUnitRange(true_prices[i].value)

----------------------------------------------------------------------------
(* What the claim about historical scoring speaks of *)

\* Trader t has a row in trader_predictions with a value in [0, 1]
HasValidPrediction(t) ==
    \E i \in DOMAIN trader_predictions :
        /\ trader_predictions[i].trader_id = t
        /\ InUnitRange(trader_predictions[i].prediction_value)

RECURSIVE SumOver(_, _)
SumOver(T, f) ==
    IF T = {} THEN Zero
    ELSE LET t == CHOOSE x \in T : TRUE IN FAdd(f[t], SumOver(T \ {t}, f))

\* C30: the per-trader scores returned have an entry only for traders with
\* at least one valid prediction, and the overall score is the mean of the
\* entries (0 without any).
C30_TraderWithoutPredictionsIsExcluded ==
    hist_metrics.st = "return" =>
        LET scores == hist_metrics.v.perTraderScore
            T == DOMAIN scores
        IN  /\ \A t \in T : HasValidPrediction(t)
            /\ hist_metrics.v.overallScore =
                  IF T = {} THEN Zero ELSE FDiv(SumOver(T, scores), Rat(Cardinality(T), 1))

----------------------------------------------------------------------------
(* What the claims about the trader-score update speak of *)

\* A market of the table is unresolved: its row carries no outcome
Unresolved(row) == ~hasattr(row, "outcome")

\* C31: a trader-score update over a markets table with unresolved markets
\* passes over each of them: it stores no score for an unresolved market
\* and ends without a failure of the update.
C31_UnresolvedMarketIsSkippedWithoutFailure ==
    (scorePc \in {"close", "sleep"}
        /\ \E i \in DOMAIN score_markets : Unresolved(score_markets[i]))
    => /\ score_error = "None"
       /\ \A i \in DOMAIN score_markets, j \in DOMAIN trader_score_rows :
              Unresolved(score_markets[i])
              => trader_score_rows[j].market_id # score_markets[i].id

----------------------------------------------------------------------------
(* What the claim about the service speaks of *)

\* The fetch failed: every attempt raised, or the response did not parse
FetchFailed ==
    /\ attempt_log # <<>>
    /\ LET last == attempt_log[Len(attempt_log)]
       IN  last.kind = "error" \/ ParseRaises(last.v)

\* C32: get_active and get_historical hand a result to their caller
\* whatever the fetch met (request errors until the retries are used up, an
\* HTTP status error, a response that does not parse) and whatever the
\* calculator is given (no orders, a zero total size, a price outside
\* [0, 1], a market or predictions that are missing, a query that raises):
\* no exception reaches the caller, and after a failed fetch the result is
\* the empty one.
C32_ServiceReturnsAResult ==
    /\ fetchPc = "done" => fetch_result.st = "return"
    /\ service_result.st \in {"none", "return"}
    /\ (service_result.st = "return" /\ FetchFailed)
       => /\ service_result.v.overallScore = Zero
          /\ service_result.v.perTraderScore = <<>>

C32_Witness ==
    /\ service_result.st = "return"
    /\ Len(attempt_log) = max_retries
    /\ \A i \in DOMAIN attempt_log : attempt_log[i].kind = "error"

----------------------------------------------------------------------------
(* What the claim about the rules the alert loop reads speaks of *)

ActiveRuleIds == {rule_rows[i].id : i \in {j \in DOMAIN rule_rows : rule_rows[j].is_active}}

\* C34: no step of the alert loop changes the alert_rules table or the
\* true_prices table; every rule a task is made for, every notification and
\* every email is of a rule with is_active true; and a cycle over a table
\* without an active rule makes no task, converts no rule and catches
\* nothing but a failure of its query.
C34_RulesAreReadOnlyAndInactiveOnesIgnored ==
    /\ [][rule_rows' = rule_rows /\ true_prices' = true_prices]_vars
    /\ [](/\ \A i \in DOMAIN alert_rules : alert_rules[i].id \in ActiveRuleIds
          /\ \A i \in DOMAIN alert_notifications :
                alert_notifications[i].alert_rule_id \in ActiveRuleIds
          /\ \A i \in DOMAIN emails : emails[i].alert_rule_id \in ActiveRuleIds
          /\ (alert_now > 0 /\ ActiveRuleIds = {})
             => /\ alert_error \in {"None", "SQLAlchemyError"}
                /\ rule_tasks = <<>>)

\* A cycle has run over a table with an inactive rule and an active one
C34_Witness ==
    /\ alert_now > 0
    /\ alertPc = "sleep"
    /\ Len(rule_rows) = 2
    /\ ~rule_rows[1].is_active
    /\ rule_rows[2].is_active
    /\ alert_notifications = <<>>
    /\ emails = <<>>

----------------------------------------------------------------------------
(* What the claim about repeated notifications speaks of *)

\* The latest record of the row's market satisfies the row's condition
StandingBreach(row) ==
    LET rows == TruePricesOf(true_prices, row.market_id)
    IN  /\ rows # {}
        /\ ~FEq(LatestTruePrice(rows).mid_price, Zero)
        /\ ThresholdExceeded(row, Difference(LatestTruePrice(rows).value,
                                             LatestTruePrice(rows).mid_price))

\* C35: a cycle of the alert loop whose query of the rules succeeded has
\* stored, for every active rule whose condition the latest record of its
\* market satisfies, a notification of that cycle and made an email task of
\* that cycle, whether or not earlier cycles notified the same breach.
C35_EveryCycleNotifiesAStandingBreach ==
    (alertPc = "sleep" /\ alert_error # "SQLAlchemyError")
    => \A i \in DOMAIN rule_rows :
           (rule_rows[i].is_active /\ StandingBreach(rule_rows[i]))
           => /\ \E n \in DOMAIN alert_notifications :
                    /\ alert_notifications[n].alert_rule_id = rule_rows[i].id
                    /\ alert_notifications[n].sent_at = alert_now
              /\ \E e \in DOMAIN emails :
                    /\ emails[e].alert_rule_id = rule_rows[i].id
                    /\ emails[e].timestamp = alert_now

----------------------------------------------------------------------------
(* What the claim about the tasks of a cycle on their shared session       *)
(* speaks of                                                               *)

\* C36: at every point of a cycle the session of the aggregation loop and
\* that of the alert loop hold nothing that was added by a task other than
\* the running one, at most one task stands between its add and its commit
\* or rollback, and the commit or rollback of a task decides its own record
\* only: a market or rule whose task ended without an exception on a
\* record to store has exactly that record, one whose task ended with the
\* database's error has none, whatever its siblings did.
C36_TasksDoNotInterleaveOnTheSession ==
    /\ \A i \in DOMAIN session.new : session.new[i].market_id = running
    /\ alert_session.new # <<>> =>
          /\ running \in DOMAIN alert_rules
          /\ \A i \in DOMAIN alert_session.new :
                alert_session.new[i].alert_rule_id = alert_rules[running].id
    /\ added \subseteq {running}
    /\ Len(session.new) <= 1
    /\ Len(alert_session.new) <= 1
    /\ \A m \in Listed :
          /\ (results[m] = "None" /\ ValidSnapshot(m)) =>
                Cardinality(StoredIn(m, now)) = 1
          /\ results[m] = "SQLAlchemyError" => StoredIn(m, now) = {}
    /\ \A k \in DOMAIN alert_log :
          alert_log[k].result = "SQLAlchemyError" =>
              Notified(alert_log[k].alert_rule_id, alert_log[k].timestamp) = {}

\* In one cycle the record of one market has been committed, and the task
\* of another market, which had a record to store, has ended with the
\* database's error and left the first record in place
C36_Witness ==
    \E m1 \in Listed, m2 \in Listed :
        /\ running = 0
        /\ aggPc = "gather"
        /\ results[m1] = "None"
        /\ Cardinality(StoredIn(m1, now)) = 1
        /\ results[m2] = "SQLAlchemyError"
        /\ ValidSnapshot(m2)
        /\ StoredIn(m2, now) = {}
        /\ session.new = <<>>

----------------------------------------------------------------------------
(* What the claim about an empty order sequence speaks of *)

EmptyBook == BookData(<<>>, <<>>)

\* The latest snapshot of the market is one of an empty book
EmptyLatest(m) ==
    /\ market_snapshots[m] # {}
    /\ LatestSnapshot(market_snapshots[m]).raw_data = EmptyBook

RowsOfMarket(table, m) == {i \in DOMAIN table : table[i].market_id = m}

\* C37: a task of ingestion that was given no orders, after a fetch that
\* failed included, and whose commit succeeded has stored a snapshot of this
\* poll with empty bids and asks and a NaN mid price; and no step adds a
\* record of a market to true_prices while the latest snapshot of that
\* market is one of an empty book.
C37_EmptyFetchGivesSnapshotAndNoTruePrice ==
    /\ [](\A m \in MarketIds :
            (poll_results[m] = "None" /\ poll_orders[m] = <<>>) =>
                \E row \in market_snapshots[m] :
                    /\ row.timestamp = poll_now
                    /\ row.raw_data = EmptyBook
                    /\ isnan(row.mid_price))
    /\ [][\A m \in MarketIds :
            EmptyLatest(m) =>
                RowsOfMarket(true_prices', m) = RowsOfMarket(true_prices, m)]_vars

\* The first cycle stored a record of the market from its first snapshot;
\* ingestion then stored the snapshot of an empty fetch, and the second
\* cycle has processed the market and stored nothing
C37_Witness ==
    \E m \in Listed :
        /\ poll_results[m] = "None"
        /\ poll_orders[m] = <<>>
        /\ EmptyLatest(m)
        /\ now = 2
        /\ results[m] = "None"
        /\ Cardinality(StoredIn(m, 1)) = 1
        /\ StoredIn(m, 2) = {}

----------------------------------------------------------------------------
(* What the claim about the update of the trader scores speaks of *)

SamePair(a, b) == a.trader_id = b.trader_id /\ a.market_id = b.market_id

\* The Brier scores the predictions of the pair of a record can be given:
\* one for each outcome of the market
ScoresOfPair(row) ==
    LET trader_values ==
            get_trader_predictions_for_market(score_predictions, row.market_id,
                                              row.trader_id, FALSE)
    IN  {calculate_brier_score(trader_values,
                               [i \in DOMAIN trader_values |-> o]).v : o \in {0, 1}}

----------------------------------------------------------------------------
(* What the claim about the sessions of the loops speaks of *)

Resting(pc) == pc \in {"sleep", "idle"}

\* C39: a loop that sleeps, or is about to begin its next cycle, holds no
\* open session: the session of the cycle of the aggregation, alert and
\* trader-score loops is closed, and so is the session of every market of
\* the poll of ingestion; and the session of a market is closed as soon as
\* its task has ended, with or without an exception.
C39_SessionsAreClosedBeforeTheSleep ==
    /\ Resting(aggPc) => ~session.open
    /\ Resting(alertPc) => ~alert_session.open
    /\ Resting(scorePc) => ~score_session.open
    /\ Resting(pollPc) => \A m \in MarketIds : ~market_sessions[m].open
    /\ \A m \in MarketIds : poll_results[m] # "-" => ~market_sessions[m].open

\* The poll of ingestion sleeps after a task of it failed in its commit, and
\* the aggregation loop sleeps after a cycle in which a market failed
C39_Witness ==
    /\ pollPc = "sleep"
    /\ \E m \in Listed : /\ poll_results[m] = "SQLAlchemyError"
                         /\ market_sessions[m].users = {m}
    /\ aggPc = "sleep"
    /\ \E m \in Listed : results[m] = "SQLAlchemyError"
    /\ ~session.open

====
